---- MODULE Spec2Model ----
(***************************************************************************)
(* The image-to-text extraction pipeline of ocr_pipeline.py (OCRPipeline). *)
(* Strings that the code inspects character by character (paths, text) are *)
(* sequences of Unicode code points, and so is a message that embeds a     *)
(* path; messages that are only passed on are TLA+ strings.  A confidence  *)
(* is the exact fraction num/den.                                          *)
(***************************************************************************)
EXTENDS Integers, Sequences, FiniteSets, TLC

VARIABLES
    EASYOCR_AVAILABLE,  \* module global set by the import at lines 16-20
    reader,             \* "ready": self.reader was assigned; "missing": it was not
    files,              \* the file system: existing path -> stored image
    pc,                 \* "idle", "batch" while batch_process loops, "done" or
                        \* "batch_done" after the return, "raised" when an
                        \* exception of extract_text or batch_process reached
                        \* the caller, "constructed" after OCRPipeline()
    image_paths,        \* batch_process: its argument
    batch_preprocess,   \* batch_process: its preprocess argument
    batch_index,        \* batch_process: how many paths the loop has taken
    results,            \* batch_process: the list built so far
    returned,           \* batch_process: the list it returned (<<>> before)
    last,               \* the latest extract_text invocation and what it did
    lastValidate,       \* the latest direct validate_image invocation
    lastPreprocess,     \* the latest direct preprocess_image invocation
    workers,            \* concurrent callers of extract_text: worker -> its
                        \* position and locals
    input_text,         \* the argument of a direct call of a text function
    cleaned,            \* what _post_process_text returned for input_text
    recleaned,          \* what _post_process_text returned for cleaned
    classified,         \* what _classify_content returned for input_text
    suggestions,        \* the direct _generate_suggestions calls made so far
    image_size,         \* <<width, height>> of an image handed to the resize step
    resized,            \* what the resize step of lines 100-105 did with it
    deskewed,           \* the latest direct _apply_deskewing invocation
    staged,             \* the latest preprocess_image invocation on an instance
                        \* whose preprocessing_config the caller has set
    heap,               \* the result dictionaries built so far: identity -> dict
    obj,                \* extract_text and batch_process statement by statement:
                        \* the position and the references the locals hold
    constructed         \* the latest OCRPipeline() invocation

\* what the direct calls of the single functions read and write
unitVars == <<workers, input_text, cleaned, recleaned, classified, suggestions,
              image_size, resized>>

\* what the calls added for the single steps read and write
stepVars == <<deskewed, staged, heap, obj, constructed>>

vars == <<EASYOCR_AVAILABLE, reader, files, pc, image_paths, batch_preprocess,
          batch_index, results, returned, last, lastValidate, lastPreprocess,
          unitVars, stepVars>>

----------------------------------------------------------------------------
(* Bounds of the model *)

MaxBatch == 2          \* longest list handed to batch_process
MaxRegions == 2        \* most regions one EasyOCR read returns
NumWorkers == 2        \* concurrent callers of extract_text
MaxTextLen == 4        \* longest text handed to _post_process_text directly
MaxWords == 52         \* most words of a text handed to _classify_content directly
MaxDim == 10000        \* largest width or height handed to the resize step

----------------------------------------------------------------------------
(* Characters and the str methods the code uses *)

Max(S) == CHOOSE x \in S : \A y \in S : y <= x
Min(S) == CHOOSE x \in S : \A y \in S : x <= y
Abs(x) == IF x < 0 THEN -x ELSE x

\* the one element of a set with one element
Only(S) == CHOOSE v \in S : TRUE

\* the elements of a sequence
Range(f) == {f[k] : k \in DOMAIN f}

\* the characters U+0020 to U+005F and U+0061 to U+007E, in order
PrintableLow == " !\"#$%&'()*+,-./0123456789:;<=>?@ABCDEFGHIJKLMNOPQRSTUVWXYZ[\\]^_"
PrintableHigh == "abcdefghijklmnopqrstuvwxyz{|}~"

\* the code point of each character of the two strings above
CodePoints ==
    [c \in {SubSeq(PrintableLow, k, k) : k \in 1..Len(PrintableLow)}
            \cup {SubSeq(PrintableHigh, k, k) : k \in 1..Len(PrintableHigh)} |->
        IF \E k \in 1..Len(PrintableLow) : SubSeq(PrintableLow, k, k) = c
        THEN 31 + (CHOOSE k \in 1..Len(PrintableLow) : SubSeq(PrintableLow, k, k) = c)
        ELSE 96 + (CHOOSE k \in 1..Len(PrintableHigh) : SubSeq(PrintableHigh, k, k) = c)]

\* ord(c) for a character of the two strings above
ord(c) == CodePoints[c]

RECURSIVE StrFrom(_, _)
\* the code points of the characters of s from position i on
StrFrom(s, i) ==
    IF i > Len(s) THEN <<>> ELSE <<ord(SubSeq(s, i, i))>> \o StrFrom(s, i + 1)

\* a str literal of such characters as the sequence of its code points
Str(s) == StrFrom(s, 1)

\* c lies in one of the ranges <<first, last>> of R
InRanges(c, R) == \E k \in 1..Len(R) : R[k][1] <= c /\ c <= R[k][2]

\* the characters of str.isspace(), which \s of a str pattern, str.strip()
\* and str.split() all use: U+0009 to U+000D, U+001C to U+0020, U+0085,
\* U+00A0, U+1680, U+2000 to U+200A, U+2028, U+2029, U+202F, U+205F, U+3000
Whitespace ==
    (9..13) \cup (28..32) \cup {133, 160, 5760} \cup (8192..8202)
    \cup {8232, 8233, 8239, 8287, 12288}

UpperLetters == ord("A")..ord("Z")
Letters == (ord("a")..ord("z")) \cup UpperLetters
Digits == ord("0")..ord("9")

\* the characters from U+0080 on that \w of a str pattern matches (those
\* of str.isalnum(), Unicode 14.0 in Python 3.11), as ranges <<first, last>>
WordRanges ==
    <<<<170, 170>>, <<178, 179>>, <<181, 181>>, <<185, 186>>, <<188, 190>>, <<192, 214>>,
      <<216, 246>>, <<248, 705>>, <<710, 721>>, <<736, 740>>, <<748, 748>>, <<750, 750>>,
      <<880, 884>>, <<886, 887>>, <<890, 893>>, <<895, 895>>, <<902, 902>>, <<904, 906>>,
      <<908, 908>>, <<910, 929>>, <<931, 1013>>, <<1015, 1153>>, <<1162, 1327>>, <<1329, 1366>>,
      <<1369, 1369>>, <<1376, 1416>>, <<1488, 1514>>, <<1519, 1522>>, <<1568, 1610>>, <<1632, 1641>>,
      <<1646, 1647>>, <<1649, 1747>>, <<1749, 1749>>, <<1765, 1766>>, <<1774, 1788>>, <<1791, 1791>>,
      <<1808, 1808>>, <<1810, 1839>>, <<1869, 1957>>, <<1969, 1969>>, <<1984, 2026>>, <<2036, 2037>>,
      <<2042, 2042>>, <<2048, 2069>>, <<2074, 2074>>, <<2084, 2084>>, <<2088, 2088>>, <<2112, 2136>>,
      <<2144, 2154>>, <<2160, 2183>>, <<2185, 2190>>, <<2208, 2249>>, <<2308, 2361>>, <<2365, 2365>>,
      <<2384, 2384>>, <<2392, 2401>>, <<2406, 2415>>, <<2417, 2432>>, <<2437, 2444>>, <<2447, 2448>>,
      <<2451, 2472>>, <<2474, 2480>>, <<2482, 2482>>, <<2486, 2489>>, <<2493, 2493>>, <<2510, 2510>>,
      <<2524, 2525>>, <<2527, 2529>>, <<2534, 2545>>, <<2548, 2553>>, <<2556, 2556>>, <<2565, 2570>>,
      <<2575, 2576>>, <<2579, 2600>>, <<2602, 2608>>, <<2610, 2611>>, <<2613, 2614>>, <<2616, 2617>>,
      <<2649, 2652>>, <<2654, 2654>>, <<2662, 2671>>, <<2674, 2676>>, <<2693, 2701>>, <<2703, 2705>>,
      <<2707, 2728>>, <<2730, 2736>>, <<2738, 2739>>, <<2741, 2745>>, <<2749, 2749>>, <<2768, 2768>>,
      <<2784, 2785>>, <<2790, 2799>>, <<2809, 2809>>, <<2821, 2828>>, <<2831, 2832>>, <<2835, 2856>>,
      <<2858, 2864>>, <<2866, 2867>>, <<2869, 2873>>, <<2877, 2877>>, <<2908, 2909>>, <<2911, 2913>>,
      <<2918, 2927>>, <<2929, 2935>>, <<2947, 2947>>, <<2949, 2954>>, <<2958, 2960>>, <<2962, 2965>>,
      <<2969, 2970>>, <<2972, 2972>>, <<2974, 2975>>, <<2979, 2980>>, <<2984, 2986>>, <<2990, 3001>>,
      <<3024, 3024>>, <<3046, 3058>>, <<3077, 3084>>, <<3086, 3088>>, <<3090, 3112>>, <<3114, 3129>>,
      <<3133, 3133>>, <<3160, 3162>>, <<3165, 3165>>, <<3168, 3169>>, <<3174, 3183>>, <<3192, 3198>>,
      <<3200, 3200>>, <<3205, 3212>>, <<3214, 3216>>, <<3218, 3240>>, <<3242, 3251>>, <<3253, 3257>>,
      <<3261, 3261>>, <<3293, 3294>>, <<3296, 3297>>, <<3302, 3311>>, <<3313, 3314>>, <<3332, 3340>>,
      <<3342, 3344>>, <<3346, 3386>>, <<3389, 3389>>, <<3406, 3406>>, <<3412, 3414>>, <<3416, 3425>>,
      <<3430, 3448>>, <<3450, 3455>>, <<3461, 3478>>, <<3482, 3505>>, <<3507, 3515>>, <<3517, 3517>>,
      <<3520, 3526>>, <<3558, 3567>>, <<3585, 3632>>, <<3634, 3635>>, <<3648, 3654>>, <<3664, 3673>>,
      <<3713, 3714>>, <<3716, 3716>>, <<3718, 3722>>, <<3724, 3747>>, <<3749, 3749>>, <<3751, 3760>>,
      <<3762, 3763>>, <<3773, 3773>>, <<3776, 3780>>, <<3782, 3782>>, <<3792, 3801>>, <<3804, 3807>>,
      <<3840, 3840>>, <<3872, 3891>>, <<3904, 3911>>, <<3913, 3948>>, <<3976, 3980>>, <<4096, 4138>>,
      <<4159, 4169>>, <<4176, 4181>>, <<4186, 4189>>, <<4193, 4193>>, <<4197, 4198>>, <<4206, 4208>>,
      <<4213, 4225>>, <<4238, 4238>>, <<4240, 4249>>, <<4256, 4293>>, <<4295, 4295>>, <<4301, 4301>>,
      <<4304, 4346>>, <<4348, 4680>>, <<4682, 4685>>, <<4688, 4694>>, <<4696, 4696>>, <<4698, 4701>>,
      <<4704, 4744>>, <<4746, 4749>>, <<4752, 4784>>, <<4786, 4789>>, <<4792, 4798>>, <<4800, 4800>>,
      <<4802, 4805>>, <<4808, 4822>>, <<4824, 4880>>, <<4882, 4885>>, <<4888, 4954>>, <<4969, 4988>>,
      <<4992, 5007>>, <<5024, 5109>>, <<5112, 5117>>, <<5121, 5740>>, <<5743, 5759>>, <<5761, 5786>>,
      <<5792, 5866>>, <<5870, 5880>>, <<5888, 5905>>, <<5919, 5937>>, <<5952, 5969>>, <<5984, 5996>>,
      <<5998, 6000>>, <<6016, 6067>>, <<6103, 6103>>, <<6108, 6108>>, <<6112, 6121>>, <<6128, 6137>>,
      <<6160, 6169>>, <<6176, 6264>>, <<6272, 6276>>, <<6279, 6312>>, <<6314, 6314>>, <<6320, 6389>>,
      <<6400, 6430>>, <<6470, 6509>>, <<6512, 6516>>, <<6528, 6571>>, <<6576, 6601>>, <<6608, 6618>>,
      <<6656, 6678>>, <<6688, 6740>>, <<6784, 6793>>, <<6800, 6809>>, <<6823, 6823>>, <<6917, 6963>>,
      <<6981, 6988>>, <<6992, 7001>>, <<7043, 7072>>, <<7086, 7141>>, <<7168, 7203>>, <<7232, 7241>>,
      <<7245, 7293>>, <<7296, 7304>>, <<7312, 7354>>, <<7357, 7359>>, <<7401, 7404>>, <<7406, 7411>>,
      <<7413, 7414>>, <<7418, 7418>>, <<7424, 7615>>, <<7680, 7957>>, <<7960, 7965>>, <<7968, 8005>>,
      <<8008, 8013>>, <<8016, 8023>>, <<8025, 8025>>, <<8027, 8027>>, <<8029, 8029>>, <<8031, 8061>>,
      <<8064, 8116>>, <<8118, 8124>>, <<8126, 8126>>, <<8130, 8132>>, <<8134, 8140>>, <<8144, 8147>>,
      <<8150, 8155>>, <<8160, 8172>>, <<8178, 8180>>, <<8182, 8188>>, <<8304, 8305>>, <<8308, 8313>>,
      <<8319, 8329>>, <<8336, 8348>>, <<8450, 8450>>, <<8455, 8455>>, <<8458, 8467>>, <<8469, 8469>>,
      <<8473, 8477>>, <<8484, 8484>>, <<8486, 8486>>, <<8488, 8488>>, <<8490, 8493>>, <<8495, 8505>>,
      <<8508, 8511>>, <<8517, 8521>>, <<8526, 8526>>, <<8528, 8585>>, <<9312, 9371>>, <<9450, 9471>>,
      <<10102, 10131>>, <<11264, 11492>>, <<11499, 11502>>, <<11506, 11507>>, <<11517, 11517>>, <<11520, 11557>>,
      <<11559, 11559>>, <<11565, 11565>>, <<11568, 11623>>, <<11631, 11631>>, <<11648, 11670>>, <<11680, 11686>>,
      <<11688, 11694>>, <<11696, 11702>>, <<11704, 11710>>, <<11712, 11718>>, <<11720, 11726>>, <<11728, 11734>>,
      <<11736, 11742>>, <<11823, 11823>>, <<12293, 12295>>, <<12321, 12329>>, <<12337, 12341>>, <<12344, 12348>>,
      <<12353, 12438>>, <<12445, 12447>>, <<12449, 12538>>, <<12540, 12543>>, <<12549, 12591>>, <<12593, 12686>>,
      <<12690, 12693>>, <<12704, 12735>>, <<12784, 12799>>, <<12832, 12841>>, <<12872, 12879>>, <<12881, 12895>>,
      <<12928, 12937>>, <<12977, 12991>>, <<13312, 19903>>, <<19968, 42124>>, <<42192, 42237>>, <<42240, 42508>>,
      <<42512, 42539>>, <<42560, 42606>>, <<42623, 42653>>, <<42656, 42735>>, <<42775, 42783>>, <<42786, 42888>>,
      <<42891, 42954>>, <<42960, 42961>>, <<42963, 42963>>, <<42965, 42969>>, <<42994, 43009>>, <<43011, 43013>>,
      <<43015, 43018>>, <<43020, 43042>>, <<43056, 43061>>, <<43072, 43123>>, <<43138, 43187>>, <<43216, 43225>>,
      <<43250, 43255>>, <<43259, 43259>>, <<43261, 43262>>, <<43264, 43301>>, <<43312, 43334>>, <<43360, 43388>>,
      <<43396, 43442>>, <<43471, 43481>>, <<43488, 43492>>, <<43494, 43518>>, <<43520, 43560>>, <<43584, 43586>>,
      <<43588, 43595>>, <<43600, 43609>>, <<43616, 43638>>, <<43642, 43642>>, <<43646, 43695>>, <<43697, 43697>>,
      <<43701, 43702>>, <<43705, 43709>>, <<43712, 43712>>, <<43714, 43714>>, <<43739, 43741>>, <<43744, 43754>>,
      <<43762, 43764>>, <<43777, 43782>>, <<43785, 43790>>, <<43793, 43798>>, <<43808, 43814>>, <<43816, 43822>>,
      <<43824, 43866>>, <<43868, 43881>>, <<43888, 44002>>, <<44016, 44025>>, <<44032, 55203>>, <<55216, 55238>>,
      <<55243, 55291>>, <<63744, 64109>>, <<64112, 64217>>, <<64256, 64262>>, <<64275, 64279>>, <<64285, 64285>>,
      <<64287, 64296>>, <<64298, 64310>>, <<64312, 64316>>, <<64318, 64318>>, <<64320, 64321>>, <<64323, 64324>>,
      <<64326, 64433>>, <<64467, 64829>>, <<64848, 64911>>, <<64914, 64967>>, <<65008, 65019>>, <<65136, 65140>>,
      <<65142, 65276>>, <<65296, 65305>>, <<65313, 65338>>, <<65345, 65370>>, <<65382, 65470>>, <<65474, 65479>>,
      <<65482, 65487>>, <<65490, 65495>>, <<65498, 65500>>, <<65536, 65547>>, <<65549, 65574>>, <<65576, 65594>>,
      <<65596, 65597>>, <<65599, 65613>>, <<65616, 65629>>, <<65664, 65786>>, <<65799, 65843>>, <<65856, 65912>>,
      <<65930, 65931>>, <<66176, 66204>>, <<66208, 66256>>, <<66273, 66299>>, <<66304, 66339>>, <<66349, 66378>>,
      <<66384, 66421>>, <<66432, 66461>>, <<66464, 66499>>, <<66504, 66511>>, <<66513, 66517>>, <<66560, 66717>>,
      <<66720, 66729>>, <<66736, 66771>>, <<66776, 66811>>, <<66816, 66855>>, <<66864, 66915>>, <<66928, 66938>>,
      <<66940, 66954>>, <<66956, 66962>>, <<66964, 66965>>, <<66967, 66977>>, <<66979, 66993>>, <<66995, 67001>>,
      <<67003, 67004>>, <<67072, 67382>>, <<67392, 67413>>, <<67424, 67431>>, <<67456, 67461>>, <<67463, 67504>>,
      <<67506, 67514>>, <<67584, 67589>>, <<67592, 67592>>, <<67594, 67637>>, <<67639, 67640>>, <<67644, 67644>>,
      <<67647, 67669>>, <<67672, 67702>>, <<67705, 67742>>, <<67751, 67759>>, <<67808, 67826>>, <<67828, 67829>>,
      <<67835, 67867>>, <<67872, 67897>>, <<67968, 68023>>, <<68028, 68047>>, <<68050, 68096>>, <<68112, 68115>>,
      <<68117, 68119>>, <<68121, 68149>>, <<68160, 68168>>, <<68192, 68222>>, <<68224, 68255>>, <<68288, 68295>>,
      <<68297, 68324>>, <<68331, 68335>>, <<68352, 68405>>, <<68416, 68437>>, <<68440, 68466>>, <<68472, 68497>>,
      <<68521, 68527>>, <<68608, 68680>>, <<68736, 68786>>, <<68800, 68850>>, <<68858, 68899>>, <<68912, 68921>>,
      <<69216, 69246>>, <<69248, 69289>>, <<69296, 69297>>, <<69376, 69415>>, <<69424, 69445>>, <<69457, 69460>>,
      <<69488, 69505>>, <<69552, 69579>>, <<69600, 69622>>, <<69635, 69687>>, <<69714, 69743>>, <<69745, 69746>>,
      <<69749, 69749>>, <<69763, 69807>>, <<69840, 69864>>, <<69872, 69881>>, <<69891, 69926>>, <<69942, 69951>>,
      <<69956, 69956>>, <<69959, 69959>>, <<69968, 70002>>, <<70006, 70006>>, <<70019, 70066>>, <<70081, 70084>>,
      <<70096, 70106>>, <<70108, 70108>>, <<70113, 70132>>, <<70144, 70161>>, <<70163, 70187>>, <<70272, 70278>>,
      <<70280, 70280>>, <<70282, 70285>>, <<70287, 70301>>, <<70303, 70312>>, <<70320, 70366>>, <<70384, 70393>>,
      <<70405, 70412>>, <<70415, 70416>>, <<70419, 70440>>, <<70442, 70448>>, <<70450, 70451>>, <<70453, 70457>>,
      <<70461, 70461>>, <<70480, 70480>>, <<70493, 70497>>, <<70656, 70708>>, <<70727, 70730>>, <<70736, 70745>>,
      <<70751, 70753>>, <<70784, 70831>>, <<70852, 70853>>, <<70855, 70855>>, <<70864, 70873>>, <<71040, 71086>>,
      <<71128, 71131>>, <<71168, 71215>>, <<71236, 71236>>, <<71248, 71257>>, <<71296, 71338>>, <<71352, 71352>>,
      <<71360, 71369>>, <<71424, 71450>>, <<71472, 71483>>, <<71488, 71494>>, <<71680, 71723>>, <<71840, 71922>>,
      <<71935, 71942>>, <<71945, 71945>>, <<71948, 71955>>, <<71957, 71958>>, <<71960, 71983>>, <<71999, 71999>>,
      <<72001, 72001>>, <<72016, 72025>>, <<72096, 72103>>, <<72106, 72144>>, <<72161, 72161>>, <<72163, 72163>>,
      <<72192, 72192>>, <<72203, 72242>>, <<72250, 72250>>, <<72272, 72272>>, <<72284, 72329>>, <<72349, 72349>>,
      <<72368, 72440>>, <<72704, 72712>>, <<72714, 72750>>, <<72768, 72768>>, <<72784, 72812>>, <<72818, 72847>>,
      <<72960, 72966>>, <<72968, 72969>>, <<72971, 73008>>, <<73030, 73030>>, <<73040, 73049>>, <<73056, 73061>>,
      <<73063, 73064>>, <<73066, 73097>>, <<73112, 73112>>, <<73120, 73129>>, <<73440, 73458>>, <<73648, 73648>>,
      <<73664, 73684>>, <<73728, 74649>>, <<74752, 74862>>, <<74880, 75075>>, <<77712, 77808>>, <<77824, 78894>>,
      <<82944, 83526>>, <<92160, 92728>>, <<92736, 92766>>, <<92768, 92777>>, <<92784, 92862>>, <<92864, 92873>>,
      <<92880, 92909>>, <<92928, 92975>>, <<92992, 92995>>, <<93008, 93017>>, <<93019, 93025>>, <<93027, 93047>>,
      <<93053, 93071>>, <<93760, 93846>>, <<93952, 94026>>, <<94032, 94032>>, <<94099, 94111>>, <<94176, 94177>>,
      <<94179, 94179>>, <<94208, 100343>>, <<100352, 101589>>, <<101632, 101640>>, <<110576, 110579>>, <<110581, 110587>>,
      <<110589, 110590>>, <<110592, 110882>>, <<110928, 110930>>, <<110948, 110951>>, <<110960, 111355>>, <<113664, 113770>>,
      <<113776, 113788>>, <<113792, 113800>>, <<113808, 113817>>, <<119520, 119539>>, <<119648, 119672>>, <<119808, 119892>>,
      <<119894, 119964>>, <<119966, 119967>>, <<119970, 119970>>, <<119973, 119974>>, <<119977, 119980>>, <<119982, 119993>>,
      <<119995, 119995>>, <<119997, 120003>>, <<120005, 120069>>, <<120071, 120074>>, <<120077, 120084>>, <<120086, 120092>>,
      <<120094, 120121>>, <<120123, 120126>>, <<120128, 120132>>, <<120134, 120134>>, <<120138, 120144>>, <<120146, 120485>>,
      <<120488, 120512>>, <<120514, 120538>>, <<120540, 120570>>, <<120572, 120596>>, <<120598, 120628>>, <<120630, 120654>>,
      <<120656, 120686>>, <<120688, 120712>>, <<120714, 120744>>, <<120746, 120770>>, <<120772, 120779>>, <<120782, 120831>>,
      <<122624, 122654>>, <<123136, 123180>>, <<123191, 123197>>, <<123200, 123209>>, <<123214, 123214>>, <<123536, 123565>>,
      <<123584, 123627>>, <<123632, 123641>>, <<124896, 124902>>, <<124904, 124907>>, <<124909, 124910>>, <<124912, 124926>>,
      <<124928, 125124>>, <<125127, 125135>>, <<125184, 125251>>, <<125259, 125259>>, <<125264, 125273>>, <<126065, 126123>>,
      <<126125, 126127>>, <<126129, 126132>>, <<126209, 126253>>, <<126255, 126269>>, <<126464, 126467>>, <<126469, 126495>>,
      <<126497, 126498>>, <<126500, 126500>>, <<126503, 126503>>, <<126505, 126514>>, <<126516, 126519>>, <<126521, 126521>>,
      <<126523, 126523>>, <<126530, 126530>>, <<126535, 126535>>, <<126537, 126537>>, <<126539, 126539>>, <<126541, 126543>>,
      <<126545, 126546>>, <<126548, 126548>>, <<126551, 126551>>, <<126553, 126553>>, <<126555, 126555>>, <<126557, 126557>>,
      <<126559, 126559>>, <<126561, 126562>>, <<126564, 126564>>, <<126567, 126570>>, <<126572, 126578>>, <<126580, 126583>>,
      <<126585, 126588>>, <<126590, 126590>>, <<126592, 126601>>, <<126603, 126619>>, <<126625, 126627>>, <<126629, 126633>>,
      <<126635, 126651>>, <<127232, 127244>>, <<130032, 130041>>, <<131072, 173791>>, <<173824, 177976>>, <<177984, 178205>>,
      <<178208, 183969>>, <<183984, 191456>>, <<194560, 195101>>, <<196608, 201546>>>>

\* \w of a str pattern
IsWordChar(c) ==
    IF c < 128 THEN c \in Letters \cup Digits \cup {ord("_")}
    ELSE InRanges(c, WordRanges)

\* what str.lower() makes of the characters from U+0080 on that it changes
\* into one other character: <<first, last, step, delta>> says that first,
\* first + step, ..., last each become themselves plus delta
LowerRules ==
    <<<<192, 214, 1, 32>>, <<216, 222, 1, 32>>, <<256, 302, 2, 1>>, <<306, 310, 2, 1>>,
      <<313, 327, 2, 1>>, <<330, 374, 2, 1>>, <<376, 376, 1, -121>>, <<377, 381, 2, 1>>,
      <<385, 385, 1, 210>>, <<386, 388, 2, 1>>, <<390, 390, 1, 206>>, <<391, 391, 1, 1>>,
      <<393, 394, 1, 205>>, <<395, 395, 1, 1>>, <<398, 398, 1, 79>>, <<399, 399, 1, 202>>,
      <<400, 400, 1, 203>>, <<401, 401, 1, 1>>, <<403, 403, 1, 205>>, <<404, 404, 1, 207>>,
      <<406, 406, 1, 211>>, <<407, 407, 1, 209>>, <<408, 408, 1, 1>>, <<412, 412, 1, 211>>,
      <<413, 413, 1, 213>>, <<415, 415, 1, 214>>, <<416, 420, 2, 1>>, <<422, 422, 1, 218>>,
      <<423, 423, 1, 1>>, <<425, 425, 1, 218>>, <<428, 428, 1, 1>>, <<430, 430, 1, 218>>,
      <<431, 431, 1, 1>>, <<433, 434, 1, 217>>, <<435, 437, 2, 1>>, <<439, 439, 1, 219>>,
      <<440, 440, 1, 1>>, <<444, 444, 1, 1>>, <<452, 452, 1, 2>>, <<453, 453, 1, 1>>,
      <<455, 455, 1, 2>>, <<456, 456, 1, 1>>, <<458, 458, 1, 2>>, <<459, 475, 2, 1>>,
      <<478, 494, 2, 1>>, <<497, 497, 1, 2>>, <<498, 500, 2, 1>>, <<502, 502, 1, -97>>,
      <<503, 503, 1, -56>>, <<504, 542, 2, 1>>, <<544, 544, 1, -130>>, <<546, 562, 2, 1>>,
      <<570, 570, 1, 10795>>, <<571, 571, 1, 1>>, <<573, 573, 1, -163>>, <<574, 574, 1, 10792>>,
      <<577, 577, 1, 1>>, <<579, 579, 1, -195>>, <<580, 580, 1, 69>>, <<581, 581, 1, 71>>,
      <<582, 590, 2, 1>>, <<880, 882, 2, 1>>, <<886, 886, 1, 1>>, <<895, 895, 1, 116>>,
      <<902, 902, 1, 38>>, <<904, 906, 1, 37>>, <<908, 908, 1, 64>>, <<910, 911, 1, 63>>,
      <<913, 929, 1, 32>>, <<931, 939, 1, 32>>, <<975, 975, 1, 8>>, <<984, 1006, 2, 1>>,
      <<1012, 1012, 1, -60>>, <<1015, 1015, 1, 1>>, <<1017, 1017, 1, -7>>, <<1018, 1018, 1, 1>>,
      <<1021, 1023, 1, -130>>, <<1024, 1039, 1, 80>>, <<1040, 1071, 1, 32>>, <<1120, 1152, 2, 1>>,
      <<1162, 1214, 2, 1>>, <<1216, 1216, 1, 15>>, <<1217, 1229, 2, 1>>, <<1232, 1326, 2, 1>>,
      <<1329, 1366, 1, 48>>, <<4256, 4293, 1, 7264>>, <<4295, 4295, 1, 7264>>, <<4301, 4301, 1, 7264>>,
      <<5024, 5103, 1, 38864>>, <<5104, 5109, 1, 8>>, <<7312, 7354, 1, -3008>>, <<7357, 7359, 1, -3008>>,
      <<7680, 7828, 2, 1>>, <<7838, 7838, 1, -7615>>, <<7840, 7934, 2, 1>>, <<7944, 7951, 1, -8>>,
      <<7960, 7965, 1, -8>>, <<7976, 7983, 1, -8>>, <<7992, 7999, 1, -8>>, <<8008, 8013, 1, -8>>,
      <<8025, 8031, 2, -8>>, <<8040, 8047, 1, -8>>, <<8072, 8079, 1, -8>>, <<8088, 8095, 1, -8>>,
      <<8104, 8111, 1, -8>>, <<8120, 8121, 1, -8>>, <<8122, 8123, 1, -74>>, <<8124, 8124, 1, -9>>,
      <<8136, 8139, 1, -86>>, <<8140, 8140, 1, -9>>, <<8152, 8153, 1, -8>>, <<8154, 8155, 1, -100>>,
      <<8168, 8169, 1, -8>>, <<8170, 8171, 1, -112>>, <<8172, 8172, 1, -7>>, <<8184, 8185, 1, -128>>,
      <<8186, 8187, 1, -126>>, <<8188, 8188, 1, -9>>, <<8486, 8486, 1, -7517>>, <<8490, 8490, 1, -8383>>,
      <<8491, 8491, 1, -8262>>, <<8498, 8498, 1, 28>>, <<8544, 8559, 1, 16>>, <<8579, 8579, 1, 1>>,
      <<9398, 9423, 1, 26>>, <<11264, 11311, 1, 48>>, <<11360, 11360, 1, 1>>, <<11362, 11362, 1, -10743>>,
      <<11363, 11363, 1, -3814>>, <<11364, 11364, 1, -10727>>, <<11367, 11371, 2, 1>>, <<11373, 11373, 1, -10780>>,
      <<11374, 11374, 1, -10749>>, <<11375, 11375, 1, -10783>>, <<11376, 11376, 1, -10782>>, <<11378, 11378, 1, 1>>,
      <<11381, 11381, 1, 1>>, <<11390, 11391, 1, -10815>>, <<11392, 11490, 2, 1>>, <<11499, 11501, 2, 1>>,
      <<11506, 11506, 1, 1>>, <<42560, 42604, 2, 1>>, <<42624, 42650, 2, 1>>, <<42786, 42798, 2, 1>>,
      <<42802, 42862, 2, 1>>, <<42873, 42875, 2, 1>>, <<42877, 42877, 1, -35332>>, <<42878, 42886, 2, 1>>,
      <<42891, 42891, 1, 1>>, <<42893, 42893, 1, -42280>>, <<42896, 42898, 2, 1>>, <<42902, 42920, 2, 1>>,
      <<42922, 42922, 1, -42308>>, <<42923, 42923, 1, -42319>>, <<42924, 42924, 1, -42315>>, <<42925, 42925, 1, -42305>>,
      <<42926, 42926, 1, -42308>>, <<42928, 42928, 1, -42258>>, <<42929, 42929, 1, -42282>>, <<42930, 42930, 1, -42261>>,
      <<42931, 42931, 1, 928>>, <<42932, 42946, 2, 1>>, <<42948, 42948, 1, -48>>, <<42949, 42949, 1, -42307>>,
      <<42950, 42950, 1, -35384>>, <<42951, 42953, 2, 1>>, <<42960, 42960, 1, 1>>, <<42966, 42968, 2, 1>>,
      <<42997, 42997, 1, 1>>, <<65313, 65338, 1, 32>>, <<66560, 66599, 1, 40>>, <<66736, 66771, 1, 40>>,
      <<66928, 66938, 1, 39>>, <<66940, 66954, 1, 39>>, <<66956, 66962, 1, 39>>, <<66964, 66965, 1, 39>>,
      <<68736, 68786, 1, 64>>, <<71840, 71871, 1, 32>>, <<93760, 93791, 1, 32>>, <<125184, 125217, 1, 34>>>>

\* the characters str.lower() skips when it looks for the letter before or
\* after a capital sigma (Case_Ignorable), as ranges <<first, last>>
CaseIgnorable ==
    <<<<39, 39>>, <<46, 46>>, <<58, 58>>, <<94, 94>>, <<96, 96>>, <<168, 168>>,
      <<173, 173>>, <<175, 175>>, <<180, 180>>, <<183, 184>>, <<688, 879>>, <<884, 885>>,
      <<890, 890>>, <<900, 901>>, <<903, 903>>, <<1155, 1161>>, <<1369, 1369>>, <<1375, 1375>>,
      <<1425, 1469>>, <<1471, 1471>>, <<1473, 1474>>, <<1476, 1477>>, <<1479, 1479>>, <<1524, 1524>>,
      <<1536, 1541>>, <<1552, 1562>>, <<1564, 1564>>, <<1600, 1600>>, <<1611, 1631>>, <<1648, 1648>>,
      <<1750, 1757>>, <<1759, 1768>>, <<1770, 1773>>, <<1807, 1807>>, <<1809, 1809>>, <<1840, 1866>>,
      <<1958, 1968>>, <<2027, 2037>>, <<2042, 2042>>, <<2045, 2045>>, <<2070, 2093>>, <<2137, 2139>>,
      <<2184, 2184>>, <<2192, 2193>>, <<2200, 2207>>, <<2249, 2306>>, <<2362, 2362>>, <<2364, 2364>>,
      <<2369, 2376>>, <<2381, 2381>>, <<2385, 2391>>, <<2402, 2403>>, <<2417, 2417>>, <<2433, 2433>>,
      <<2492, 2492>>, <<2497, 2500>>, <<2509, 2509>>, <<2530, 2531>>, <<2558, 2558>>, <<2561, 2562>>,
      <<2620, 2620>>, <<2625, 2626>>, <<2631, 2632>>, <<2635, 2637>>, <<2641, 2641>>, <<2672, 2673>>,
      <<2677, 2677>>, <<2689, 2690>>, <<2748, 2748>>, <<2753, 2757>>, <<2759, 2760>>, <<2765, 2765>>,
      <<2786, 2787>>, <<2810, 2815>>, <<2817, 2817>>, <<2876, 2876>>, <<2879, 2879>>, <<2881, 2884>>,
      <<2893, 2893>>, <<2901, 2902>>, <<2914, 2915>>, <<2946, 2946>>, <<3008, 3008>>, <<3021, 3021>>,
      <<3072, 3072>>, <<3076, 3076>>, <<3132, 3132>>, <<3134, 3136>>, <<3142, 3144>>, <<3146, 3149>>,
      <<3157, 3158>>, <<3170, 3171>>, <<3201, 3201>>, <<3260, 3260>>, <<3263, 3263>>, <<3270, 3270>>,
      <<3276, 3277>>, <<3298, 3299>>, <<3328, 3329>>, <<3387, 3388>>, <<3393, 3396>>, <<3405, 3405>>,
      <<3426, 3427>>, <<3457, 3457>>, <<3530, 3530>>, <<3538, 3540>>, <<3542, 3542>>, <<3633, 3633>>,
      <<3636, 3642>>, <<3654, 3662>>, <<3761, 3761>>, <<3764, 3772>>, <<3782, 3782>>, <<3784, 3789>>,
      <<3864, 3865>>, <<3893, 3893>>, <<3895, 3895>>, <<3897, 3897>>, <<3953, 3966>>, <<3968, 3972>>,
      <<3974, 3975>>, <<3981, 3991>>, <<3993, 4028>>, <<4038, 4038>>, <<4141, 4144>>, <<4146, 4151>>,
      <<4153, 4154>>, <<4157, 4158>>, <<4184, 4185>>, <<4190, 4192>>, <<4209, 4212>>, <<4226, 4226>>,
      <<4229, 4230>>, <<4237, 4237>>, <<4253, 4253>>, <<4348, 4348>>, <<4957, 4959>>, <<5906, 5908>>,
      <<5938, 5939>>, <<5970, 5971>>, <<6002, 6003>>, <<6068, 6069>>, <<6071, 6077>>, <<6086, 6086>>,
      <<6089, 6099>>, <<6103, 6103>>, <<6109, 6109>>, <<6155, 6159>>, <<6211, 6211>>, <<6277, 6278>>,
      <<6313, 6313>>, <<6432, 6434>>, <<6439, 6440>>, <<6450, 6450>>, <<6457, 6459>>, <<6679, 6680>>,
      <<6683, 6683>>, <<6742, 6742>>, <<6744, 6750>>, <<6752, 6752>>, <<6754, 6754>>, <<6757, 6764>>,
      <<6771, 6780>>, <<6783, 6783>>, <<6823, 6823>>, <<6832, 6862>>, <<6912, 6915>>, <<6964, 6964>>,
      <<6966, 6970>>, <<6972, 6972>>, <<6978, 6978>>, <<7019, 7027>>, <<7040, 7041>>, <<7074, 7077>>,
      <<7080, 7081>>, <<7083, 7085>>, <<7142, 7142>>, <<7144, 7145>>, <<7149, 7149>>, <<7151, 7153>>,
      <<7212, 7219>>, <<7222, 7223>>, <<7288, 7293>>, <<7376, 7378>>, <<7380, 7392>>, <<7394, 7400>>,
      <<7405, 7405>>, <<7412, 7412>>, <<7416, 7417>>, <<7468, 7530>>, <<7544, 7544>>, <<7579, 7679>>,
      <<8125, 8125>>, <<8127, 8129>>, <<8141, 8143>>, <<8157, 8159>>, <<8173, 8175>>, <<8189, 8190>>,
      <<8203, 8207>>, <<8216, 8217>>, <<8228, 8228>>, <<8231, 8231>>, <<8234, 8238>>, <<8288, 8292>>,
      <<8294, 8303>>, <<8305, 8305>>, <<8319, 8319>>, <<8336, 8348>>, <<8400, 8432>>, <<11388, 11389>>,
      <<11503, 11505>>, <<11631, 11631>>, <<11647, 11647>>, <<11744, 11775>>, <<11823, 11823>>, <<12293, 12293>>,
      <<12330, 12333>>, <<12337, 12341>>, <<12347, 12347>>, <<12441, 12446>>, <<12540, 12542>>, <<40981, 40981>>,
      <<42232, 42237>>, <<42508, 42508>>, <<42607, 42610>>, <<42612, 42621>>, <<42623, 42623>>, <<42652, 42655>>,
      <<42736, 42737>>, <<42752, 42785>>, <<42864, 42864>>, <<42888, 42890>>, <<42994, 42996>>, <<43000, 43001>>,
      <<43010, 43010>>, <<43014, 43014>>, <<43019, 43019>>, <<43045, 43046>>, <<43052, 43052>>, <<43204, 43205>>,
      <<43232, 43249>>, <<43263, 43263>>, <<43302, 43309>>, <<43335, 43345>>, <<43392, 43394>>, <<43443, 43443>>,
      <<43446, 43449>>, <<43452, 43453>>, <<43471, 43471>>, <<43493, 43494>>, <<43561, 43566>>, <<43569, 43570>>,
      <<43573, 43574>>, <<43587, 43587>>, <<43596, 43596>>, <<43632, 43632>>, <<43644, 43644>>, <<43696, 43696>>,
      <<43698, 43700>>, <<43703, 43704>>, <<43710, 43711>>, <<43713, 43713>>, <<43741, 43741>>, <<43756, 43757>>,
      <<43763, 43764>>, <<43766, 43766>>, <<43867, 43871>>, <<43881, 43883>>, <<44005, 44005>>, <<44008, 44008>>,
      <<44013, 44013>>, <<64286, 64286>>, <<64434, 64450>>, <<65024, 65039>>, <<65043, 65043>>, <<65056, 65071>>,
      <<65106, 65106>>, <<65109, 65109>>, <<65279, 65279>>, <<65287, 65287>>, <<65294, 65294>>, <<65306, 65306>>,
      <<65342, 65342>>, <<65344, 65344>>, <<65392, 65392>>, <<65438, 65439>>, <<65507, 65507>>, <<65529, 65531>>,
      <<66045, 66045>>, <<66272, 66272>>, <<66422, 66426>>, <<67456, 67461>>, <<67463, 67504>>, <<67506, 67514>>,
      <<68097, 68099>>, <<68101, 68102>>, <<68108, 68111>>, <<68152, 68154>>, <<68159, 68159>>, <<68325, 68326>>,
      <<68900, 68903>>, <<69291, 69292>>, <<69446, 69456>>, <<69506, 69509>>, <<69633, 69633>>, <<69688, 69702>>,
      <<69744, 69744>>, <<69747, 69748>>, <<69759, 69761>>, <<69811, 69814>>, <<69817, 69818>>, <<69821, 69821>>,
      <<69826, 69826>>, <<69837, 69837>>, <<69888, 69890>>, <<69927, 69931>>, <<69933, 69940>>, <<70003, 70003>>,
      <<70016, 70017>>, <<70070, 70078>>, <<70089, 70092>>, <<70095, 70095>>, <<70191, 70193>>, <<70196, 70196>>,
      <<70198, 70199>>, <<70206, 70206>>, <<70367, 70367>>, <<70371, 70378>>, <<70400, 70401>>, <<70459, 70460>>,
      <<70464, 70464>>, <<70502, 70508>>, <<70512, 70516>>, <<70712, 70719>>, <<70722, 70724>>, <<70726, 70726>>,
      <<70750, 70750>>, <<70835, 70840>>, <<70842, 70842>>, <<70847, 70848>>, <<70850, 70851>>, <<71090, 71093>>,
      <<71100, 71101>>, <<71103, 71104>>, <<71132, 71133>>, <<71219, 71226>>, <<71229, 71229>>, <<71231, 71232>>,
      <<71339, 71339>>, <<71341, 71341>>, <<71344, 71349>>, <<71351, 71351>>, <<71453, 71455>>, <<71458, 71461>>,
      <<71463, 71467>>, <<71727, 71735>>, <<71737, 71738>>, <<71995, 71996>>, <<71998, 71998>>, <<72003, 72003>>,
      <<72148, 72151>>, <<72154, 72155>>, <<72160, 72160>>, <<72193, 72202>>, <<72243, 72248>>, <<72251, 72254>>,
      <<72263, 72263>>, <<72273, 72278>>, <<72281, 72283>>, <<72330, 72342>>, <<72344, 72345>>, <<72752, 72758>>,
      <<72760, 72765>>, <<72767, 72767>>, <<72850, 72871>>, <<72874, 72880>>, <<72882, 72883>>, <<72885, 72886>>,
      <<73009, 73014>>, <<73018, 73018>>, <<73020, 73021>>, <<73023, 73029>>, <<73031, 73031>>, <<73104, 73105>>,
      <<73109, 73109>>, <<73111, 73111>>, <<73459, 73460>>, <<78896, 78904>>, <<92912, 92916>>, <<92976, 92982>>,
      <<92992, 92995>>, <<94031, 94031>>, <<94095, 94111>>, <<94176, 94177>>, <<94179, 94180>>, <<110576, 110579>>,
      <<110581, 110587>>, <<110589, 110590>>, <<113821, 113822>>, <<113824, 113827>>, <<118528, 118573>>, <<118576, 118598>>,
      <<119143, 119145>>, <<119155, 119170>>, <<119173, 119179>>, <<119210, 119213>>, <<119362, 119364>>, <<121344, 121398>>,
      <<121403, 121452>>, <<121461, 121461>>, <<121476, 121476>>, <<121499, 121503>>, <<121505, 121519>>, <<122880, 122886>>,
      <<122888, 122904>>, <<122907, 122913>>, <<122915, 122916>>, <<122918, 122922>>, <<123184, 123197>>, <<123566, 123566>>,
      <<123628, 123631>>, <<125136, 125142>>, <<125252, 125259>>, <<127995, 127999>>, <<917505, 917505>>, <<917536, 917631>>,
      <<917760, 917999>>>>

\* the characters that are Cased and not Case_Ignorable, as ranges
CasedLetters ==
    <<<<65, 90>>, <<97, 122>>, <<170, 170>>, <<181, 181>>, <<186, 186>>, <<192, 214>>,
      <<216, 246>>, <<248, 442>>, <<444, 447>>, <<452, 659>>, <<661, 687>>, <<880, 883>>,
      <<886, 887>>, <<891, 893>>, <<895, 895>>, <<902, 902>>, <<904, 906>>, <<908, 908>>,
      <<910, 929>>, <<931, 1013>>, <<1015, 1153>>, <<1162, 1327>>, <<1329, 1366>>, <<1376, 1416>>,
      <<4256, 4293>>, <<4295, 4295>>, <<4301, 4301>>, <<4304, 4346>>, <<4349, 4351>>, <<5024, 5109>>,
      <<5112, 5117>>, <<7296, 7304>>, <<7312, 7354>>, <<7357, 7359>>, <<7424, 7467>>, <<7531, 7543>>,
      <<7545, 7578>>, <<7680, 7957>>, <<7960, 7965>>, <<7968, 8005>>, <<8008, 8013>>, <<8016, 8023>>,
      <<8025, 8025>>, <<8027, 8027>>, <<8029, 8029>>, <<8031, 8061>>, <<8064, 8116>>, <<8118, 8124>>,
      <<8126, 8126>>, <<8130, 8132>>, <<8134, 8140>>, <<8144, 8147>>, <<8150, 8155>>, <<8160, 8172>>,
      <<8178, 8180>>, <<8182, 8188>>, <<8450, 8450>>, <<8455, 8455>>, <<8458, 8467>>, <<8469, 8469>>,
      <<8473, 8477>>, <<8484, 8484>>, <<8486, 8486>>, <<8488, 8488>>, <<8490, 8493>>, <<8495, 8500>>,
      <<8505, 8505>>, <<8508, 8511>>, <<8517, 8521>>, <<8526, 8526>>, <<8544, 8575>>, <<8579, 8580>>,
      <<9398, 9449>>, <<11264, 11387>>, <<11390, 11492>>, <<11499, 11502>>, <<11506, 11507>>, <<11520, 11557>>,
      <<11559, 11559>>, <<11565, 11565>>, <<42560, 42605>>, <<42624, 42651>>, <<42786, 42863>>, <<42865, 42887>>,
      <<42891, 42894>>, <<42896, 42954>>, <<42960, 42961>>, <<42963, 42963>>, <<42965, 42969>>, <<42997, 42998>>,
      <<43002, 43002>>, <<43824, 43866>>, <<43872, 43880>>, <<43888, 43967>>, <<64256, 64262>>, <<64275, 64279>>,
      <<65313, 65338>>, <<65345, 65370>>, <<66560, 66639>>, <<66736, 66771>>, <<66776, 66811>>, <<66928, 66938>>,
      <<66940, 66954>>, <<66956, 66962>>, <<66964, 66965>>, <<66967, 66977>>, <<66979, 66993>>, <<66995, 67001>>,
      <<67003, 67004>>, <<68736, 68786>>, <<68800, 68850>>, <<71840, 71903>>, <<93760, 93823>>, <<119808, 119892>>,
      <<119894, 119964>>, <<119966, 119967>>, <<119970, 119970>>, <<119973, 119974>>, <<119977, 119980>>, <<119982, 119993>>,
      <<119995, 119995>>, <<119997, 120003>>, <<120005, 120069>>, <<120071, 120074>>, <<120077, 120084>>, <<120086, 120092>>,
      <<120094, 120121>>, <<120123, 120126>>, <<120128, 120132>>, <<120134, 120134>>, <<120138, 120144>>, <<120146, 120485>>,
      <<120488, 120512>>, <<120514, 120538>>, <<120540, 120570>>, <<120572, 120596>>, <<120598, 120628>>, <<120630, 120654>>,
      <<120656, 120686>>, <<120688, 120712>>, <<120714, 120744>>, <<120746, 120770>>, <<120772, 120779>>, <<122624, 122633>>,
      <<122635, 122654>>, <<125184, 125251>>, <<127280, 127305>>, <<127312, 127337>>, <<127344, 127369>>>>

\* str.lower() of one character other than U+0130 and U+03A3
lower_char(c) ==
    IF c \in UpperLetters THEN c + 32
    ELSE IF c < 128 THEN c
    ELSE Only({ IF rules = {} THEN c ELSE c + Only(rules)[4] :
                rules \in {{r \in Range(LowerRules) :
                              r[1] <= c /\ c <= r[2] /\ (c - r[1]) % r[3] = 0}} })

\* the capital sigma s[i] ends a word: a cased letter comes before it and
\* none after it, case-ignorable characters in between aside; the same
\* search runs on either side and must succeed before and fail after
final_sigma(s, i) ==
    \A side \in {"before", "after"} :
        (side = "before") <=>
            \E j \in (IF side = "before" THEN 1..(i - 1) ELSE (i + 1)..Len(s)) :
                /\ InRanges(s[j], CasedLetters)
                /\ \A m \in (IF side = "before" THEN (j + 1)..(i - 1)
                              ELSE (i + 1)..(j - 1)) :
                       InRanges(s[m], CaseIgnorable)

\* str.lower() of s[i] when it becomes one character; 931 is the capital
\* sigma U+03A3, 962 and 963 the final and the other small sigma
lower_at(s, i) ==
    IF s[i] = 931 THEN (IF final_sigma(s, i) THEN 962 ELSE 963)
    ELSE lower_char(s[i])

\* str.lower(): each character becomes one character, except U+0130 (304),
\* which becomes U+0069 U+0307 (105, 775)
lower(s) ==
    Only({ IF \A i \in 1..Len(s) : s[i] # 304 THEN each
           ELSE LET dots(i) == Cardinality({j \in 1..i : s[j] = 304})
                IN [k \in 1..(Len(s) + dots(Len(s))) |->
                       Only({ IF s[i] # 304 THEN each[i]
                              ELSE IF k = i + dots(i - 1) THEN 105 ELSE 775 :
                              i \in {n \in 1..Len(s) :
                                        n + dots(n - 1) <= k /\ k <= n + dots(n)} })] :
           each \in {[i \in 1..Len(s) |-> lower_at(s, i)]} })

\* the characters from U+0080 on that str.isprintable() accepts (Unicode
\* 14.0 in Python 3.11), as ranges <<first, last>>
PrintableRanges ==
    <<<<161, 172>>, <<174, 887>>, <<890, 895>>, <<900, 906>>, <<908, 908>>, <<910, 929>>,
      <<931, 1327>>, <<1329, 1366>>, <<1369, 1418>>, <<1421, 1423>>, <<1425, 1479>>, <<1488, 1514>>,
      <<1519, 1524>>, <<1542, 1563>>, <<1565, 1756>>, <<1758, 1805>>, <<1808, 1866>>, <<1869, 1969>>,
      <<1984, 2042>>, <<2045, 2093>>, <<2096, 2110>>, <<2112, 2139>>, <<2142, 2142>>, <<2144, 2154>>,
      <<2160, 2190>>, <<2200, 2273>>, <<2275, 2435>>, <<2437, 2444>>, <<2447, 2448>>, <<2451, 2472>>,
      <<2474, 2480>>, <<2482, 2482>>, <<2486, 2489>>, <<2492, 2500>>, <<2503, 2504>>, <<2507, 2510>>,
      <<2519, 2519>>, <<2524, 2525>>, <<2527, 2531>>, <<2534, 2558>>, <<2561, 2563>>, <<2565, 2570>>,
      <<2575, 2576>>, <<2579, 2600>>, <<2602, 2608>>, <<2610, 2611>>, <<2613, 2614>>, <<2616, 2617>>,
      <<2620, 2620>>, <<2622, 2626>>, <<2631, 2632>>, <<2635, 2637>>, <<2641, 2641>>, <<2649, 2652>>,
      <<2654, 2654>>, <<2662, 2678>>, <<2689, 2691>>, <<2693, 2701>>, <<2703, 2705>>, <<2707, 2728>>,
      <<2730, 2736>>, <<2738, 2739>>, <<2741, 2745>>, <<2748, 2757>>, <<2759, 2761>>, <<2763, 2765>>,
      <<2768, 2768>>, <<2784, 2787>>, <<2790, 2801>>, <<2809, 2815>>, <<2817, 2819>>, <<2821, 2828>>,
      <<2831, 2832>>, <<2835, 2856>>, <<2858, 2864>>, <<2866, 2867>>, <<2869, 2873>>, <<2876, 2884>>,
      <<2887, 2888>>, <<2891, 2893>>, <<2901, 2903>>, <<2908, 2909>>, <<2911, 2915>>, <<2918, 2935>>,
      <<2946, 2947>>, <<2949, 2954>>, <<2958, 2960>>, <<2962, 2965>>, <<2969, 2970>>, <<2972, 2972>>,
      <<2974, 2975>>, <<2979, 2980>>, <<2984, 2986>>, <<2990, 3001>>, <<3006, 3010>>, <<3014, 3016>>,
      <<3018, 3021>>, <<3024, 3024>>, <<3031, 3031>>, <<3046, 3066>>, <<3072, 3084>>, <<3086, 3088>>,
      <<3090, 3112>>, <<3114, 3129>>, <<3132, 3140>>, <<3142, 3144>>, <<3146, 3149>>, <<3157, 3158>>,
      <<3160, 3162>>, <<3165, 3165>>, <<3168, 3171>>, <<3174, 3183>>, <<3191, 3212>>, <<3214, 3216>>,
      <<3218, 3240>>, <<3242, 3251>>, <<3253, 3257>>, <<3260, 3268>>, <<3270, 3272>>, <<3274, 3277>>,
      <<3285, 3286>>, <<3293, 3294>>, <<3296, 3299>>, <<3302, 3311>>, <<3313, 3314>>, <<3328, 3340>>,
      <<3342, 3344>>, <<3346, 3396>>, <<3398, 3400>>, <<3402, 3407>>, <<3412, 3427>>, <<3430, 3455>>,
      <<3457, 3459>>, <<3461, 3478>>, <<3482, 3505>>, <<3507, 3515>>, <<3517, 3517>>, <<3520, 3526>>,
      <<3530, 3530>>, <<3535, 3540>>, <<3542, 3542>>, <<3544, 3551>>, <<3558, 3567>>, <<3570, 3572>>,
      <<3585, 3642>>, <<3647, 3675>>, <<3713, 3714>>, <<3716, 3716>>, <<3718, 3722>>, <<3724, 3747>>,
      <<3749, 3749>>, <<3751, 3773>>, <<3776, 3780>>, <<3782, 3782>>, <<3784, 3789>>, <<3792, 3801>>,
      <<3804, 3807>>, <<3840, 3911>>, <<3913, 3948>>, <<3953, 3991>>, <<3993, 4028>>, <<4030, 4044>>,
      <<4046, 4058>>, <<4096, 4293>>, <<4295, 4295>>, <<4301, 4301>>, <<4304, 4680>>, <<4682, 4685>>,
      <<4688, 4694>>, <<4696, 4696>>, <<4698, 4701>>, <<4704, 4744>>, <<4746, 4749>>, <<4752, 4784>>,
      <<4786, 4789>>, <<4792, 4798>>, <<4800, 4800>>, <<4802, 4805>>, <<4808, 4822>>, <<4824, 4880>>,
      <<4882, 4885>>, <<4888, 4954>>, <<4957, 4988>>, <<4992, 5017>>, <<5024, 5109>>, <<5112, 5117>>,
      <<5120, 5759>>, <<5761, 5788>>, <<5792, 5880>>, <<5888, 5909>>, <<5919, 5942>>, <<5952, 5971>>,
      <<5984, 5996>>, <<5998, 6000>>, <<6002, 6003>>, <<6016, 6109>>, <<6112, 6121>>, <<6128, 6137>>,
      <<6144, 6157>>, <<6159, 6169>>, <<6176, 6264>>, <<6272, 6314>>, <<6320, 6389>>, <<6400, 6430>>,
      <<6432, 6443>>, <<6448, 6459>>, <<6464, 6464>>, <<6468, 6509>>, <<6512, 6516>>, <<6528, 6571>>,
      <<6576, 6601>>, <<6608, 6618>>, <<6622, 6683>>, <<6686, 6750>>, <<6752, 6780>>, <<6783, 6793>>,
      <<6800, 6809>>, <<6816, 6829>>, <<6832, 6862>>, <<6912, 6988>>, <<6992, 7038>>, <<7040, 7155>>,
      <<7164, 7223>>, <<7227, 7241>>, <<7245, 7304>>, <<7312, 7354>>, <<7357, 7367>>, <<7376, 7418>>,
      <<7424, 7957>>, <<7960, 7965>>, <<7968, 8005>>, <<8008, 8013>>, <<8016, 8023>>, <<8025, 8025>>,
      <<8027, 8027>>, <<8029, 8029>>, <<8031, 8061>>, <<8064, 8116>>, <<8118, 8132>>, <<8134, 8147>>,
      <<8150, 8155>>, <<8157, 8175>>, <<8178, 8180>>, <<8182, 8190>>, <<8208, 8231>>, <<8240, 8286>>,
      <<8304, 8305>>, <<8308, 8334>>, <<8336, 8348>>, <<8352, 8384>>, <<8400, 8432>>, <<8448, 8587>>,
      <<8592, 9254>>, <<9280, 9290>>, <<9312, 11123>>, <<11126, 11157>>, <<11159, 11507>>, <<11513, 11557>>,
      <<11559, 11559>>, <<11565, 11565>>, <<11568, 11623>>, <<11631, 11632>>, <<11647, 11670>>, <<11680, 11686>>,
      <<11688, 11694>>, <<11696, 11702>>, <<11704, 11710>>, <<11712, 11718>>, <<11720, 11726>>, <<11728, 11734>>,
      <<11736, 11742>>, <<11744, 11869>>, <<11904, 11929>>, <<11931, 12019>>, <<12032, 12245>>, <<12272, 12283>>,
      <<12289, 12351>>, <<12353, 12438>>, <<12441, 12543>>, <<12549, 12591>>, <<12593, 12686>>, <<12688, 12771>>,
      <<12784, 12830>>, <<12832, 42124>>, <<42128, 42182>>, <<42192, 42539>>, <<42560, 42743>>, <<42752, 42954>>,
      <<42960, 42961>>, <<42963, 42963>>, <<42965, 42969>>, <<42994, 43052>>, <<43056, 43065>>, <<43072, 43127>>,
      <<43136, 43205>>, <<43214, 43225>>, <<43232, 43347>>, <<43359, 43388>>, <<43392, 43469>>, <<43471, 43481>>,
      <<43486, 43518>>, <<43520, 43574>>, <<43584, 43597>>, <<43600, 43609>>, <<43612, 43714>>, <<43739, 43766>>,
      <<43777, 43782>>, <<43785, 43790>>, <<43793, 43798>>, <<43808, 43814>>, <<43816, 43822>>, <<43824, 43883>>,
      <<43888, 44013>>, <<44016, 44025>>, <<44032, 55203>>, <<55216, 55238>>, <<55243, 55291>>, <<63744, 64109>>,
      <<64112, 64217>>, <<64256, 64262>>, <<64275, 64279>>, <<64285, 64310>>, <<64312, 64316>>, <<64318, 64318>>,
      <<64320, 64321>>, <<64323, 64324>>, <<64326, 64450>>, <<64467, 64911>>, <<64914, 64967>>, <<64975, 64975>>,
      <<65008, 65049>>, <<65056, 65106>>, <<65108, 65126>>, <<65128, 65131>>, <<65136, 65140>>, <<65142, 65276>>,
      <<65281, 65470>>, <<65474, 65479>>, <<65482, 65487>>, <<65490, 65495>>, <<65498, 65500>>, <<65504, 65510>>,
      <<65512, 65518>>, <<65532, 65533>>, <<65536, 65547>>, <<65549, 65574>>, <<65576, 65594>>, <<65596, 65597>>,
      <<65599, 65613>>, <<65616, 65629>>, <<65664, 65786>>, <<65792, 65794>>, <<65799, 65843>>, <<65847, 65934>>,
      <<65936, 65948>>, <<65952, 65952>>, <<66000, 66045>>, <<66176, 66204>>, <<66208, 66256>>, <<66272, 66299>>,
      <<66304, 66339>>, <<66349, 66378>>, <<66384, 66426>>, <<66432, 66461>>, <<66463, 66499>>, <<66504, 66517>>,
      <<66560, 66717>>, <<66720, 66729>>, <<66736, 66771>>, <<66776, 66811>>, <<66816, 66855>>, <<66864, 66915>>,
      <<66927, 66938>>, <<66940, 66954>>, <<66956, 66962>>, <<66964, 66965>>, <<66967, 66977>>, <<66979, 66993>>,
      <<66995, 67001>>, <<67003, 67004>>, <<67072, 67382>>, <<67392, 67413>>, <<67424, 67431>>, <<67456, 67461>>,
      <<67463, 67504>>, <<67506, 67514>>, <<67584, 67589>>, <<67592, 67592>>, <<67594, 67637>>, <<67639, 67640>>,
      <<67644, 67644>>, <<67647, 67669>>, <<67671, 67742>>, <<67751, 67759>>, <<67808, 67826>>, <<67828, 67829>>,
      <<67835, 67867>>, <<67871, 67897>>, <<67903, 67903>>, <<67968, 68023>>, <<68028, 68047>>, <<68050, 68099>>,
      <<68101, 68102>>, <<68108, 68115>>, <<68117, 68119>>, <<68121, 68149>>, <<68152, 68154>>, <<68159, 68168>>,
      <<68176, 68184>>, <<68192, 68255>>, <<68288, 68326>>, <<68331, 68342>>, <<68352, 68405>>, <<68409, 68437>>,
      <<68440, 68466>>, <<68472, 68497>>, <<68505, 68508>>, <<68521, 68527>>, <<68608, 68680>>, <<68736, 68786>>,
      <<68800, 68850>>, <<68858, 68903>>, <<68912, 68921>>, <<69216, 69246>>, <<69248, 69289>>, <<69291, 69293>>,
      <<69296, 69297>>, <<69376, 69415>>, <<69424, 69465>>, <<69488, 69513>>, <<69552, 69579>>, <<69600, 69622>>,
      <<69632, 69709>>, <<69714, 69749>>, <<69759, 69820>>, <<69822, 69826>>, <<69840, 69864>>, <<69872, 69881>>,
      <<69888, 69940>>, <<69942, 69959>>, <<69968, 70006>>, <<70016, 70111>>, <<70113, 70132>>, <<70144, 70161>>,
      <<70163, 70206>>, <<70272, 70278>>, <<70280, 70280>>, <<70282, 70285>>, <<70287, 70301>>, <<70303, 70313>>,
      <<70320, 70378>>, <<70384, 70393>>, <<70400, 70403>>, <<70405, 70412>>, <<70415, 70416>>, <<70419, 70440>>,
      <<70442, 70448>>, <<70450, 70451>>, <<70453, 70457>>, <<70459, 70468>>, <<70471, 70472>>, <<70475, 70477>>,
      <<70480, 70480>>, <<70487, 70487>>, <<70493, 70499>>, <<70502, 70508>>, <<70512, 70516>>, <<70656, 70747>>,
      <<70749, 70753>>, <<70784, 70855>>, <<70864, 70873>>, <<71040, 71093>>, <<71096, 71133>>, <<71168, 71236>>,
      <<71248, 71257>>, <<71264, 71276>>, <<71296, 71353>>, <<71360, 71369>>, <<71424, 71450>>, <<71453, 71467>>,
      <<71472, 71494>>, <<71680, 71739>>, <<71840, 71922>>, <<71935, 71942>>, <<71945, 71945>>, <<71948, 71955>>,
      <<71957, 71958>>, <<71960, 71989>>, <<71991, 71992>>, <<71995, 72006>>, <<72016, 72025>>, <<72096, 72103>>,
      <<72106, 72151>>, <<72154, 72164>>, <<72192, 72263>>, <<72272, 72354>>, <<72368, 72440>>, <<72704, 72712>>,
      <<72714, 72758>>, <<72760, 72773>>, <<72784, 72812>>, <<72816, 72847>>, <<72850, 72871>>, <<72873, 72886>>,
      <<72960, 72966>>, <<72968, 72969>>, <<72971, 73014>>, <<73018, 73018>>, <<73020, 73021>>, <<73023, 73031>>,
      <<73040, 73049>>, <<73056, 73061>>, <<73063, 73064>>, <<73066, 73102>>, <<73104, 73105>>, <<73107, 73112>>,
      <<73120, 73129>>, <<73440, 73464>>, <<73648, 73648>>, <<73664, 73713>>, <<73727, 74649>>, <<74752, 74862>>,
      <<74864, 74868>>, <<74880, 75075>>, <<77712, 77810>>, <<77824, 78894>>, <<82944, 83526>>, <<92160, 92728>>,
      <<92736, 92766>>, <<92768, 92777>>, <<92782, 92862>>, <<92864, 92873>>, <<92880, 92909>>, <<92912, 92917>>,
      <<92928, 92997>>, <<93008, 93017>>, <<93019, 93025>>, <<93027, 93047>>, <<93053, 93071>>, <<93760, 93850>>,
      <<93952, 94026>>, <<94031, 94087>>, <<94095, 94111>>, <<94176, 94180>>, <<94192, 94193>>, <<94208, 100343>>,
      <<100352, 101589>>, <<101632, 101640>>, <<110576, 110579>>, <<110581, 110587>>, <<110589, 110590>>, <<110592, 110882>>,
      <<110928, 110930>>, <<110948, 110951>>, <<110960, 111355>>, <<113664, 113770>>, <<113776, 113788>>, <<113792, 113800>>,
      <<113808, 113817>>, <<113820, 113823>>, <<118528, 118573>>, <<118576, 118598>>, <<118608, 118723>>, <<118784, 119029>>,
      <<119040, 119078>>, <<119081, 119154>>, <<119163, 119274>>, <<119296, 119365>>, <<119520, 119539>>, <<119552, 119638>>,
      <<119648, 119672>>, <<119808, 119892>>, <<119894, 119964>>, <<119966, 119967>>, <<119970, 119970>>, <<119973, 119974>>,
      <<119977, 119980>>, <<119982, 119993>>, <<119995, 119995>>, <<119997, 120003>>, <<120005, 120069>>, <<120071, 120074>>,
      <<120077, 120084>>, <<120086, 120092>>, <<120094, 120121>>, <<120123, 120126>>, <<120128, 120132>>, <<120134, 120134>>,
      <<120138, 120144>>, <<120146, 120485>>, <<120488, 120779>>, <<120782, 121483>>, <<121499, 121503>>, <<121505, 121519>>,
      <<122624, 122654>>, <<122880, 122886>>, <<122888, 122904>>, <<122907, 122913>>, <<122915, 122916>>, <<122918, 122922>>,
      <<123136, 123180>>, <<123184, 123197>>, <<123200, 123209>>, <<123214, 123215>>, <<123536, 123566>>, <<123584, 123641>>,
      <<123647, 123647>>, <<124896, 124902>>, <<124904, 124907>>, <<124909, 124910>>, <<124912, 124926>>, <<124928, 125124>>,
      <<125127, 125142>>, <<125184, 125259>>, <<125264, 125273>>, <<125278, 125279>>, <<126065, 126132>>, <<126209, 126269>>,
      <<126464, 126467>>, <<126469, 126495>>, <<126497, 126498>>, <<126500, 126500>>, <<126503, 126503>>, <<126505, 126514>>,
      <<126516, 126519>>, <<126521, 126521>>, <<126523, 126523>>, <<126530, 126530>>, <<126535, 126535>>, <<126537, 126537>>,
      <<126539, 126539>>, <<126541, 126543>>, <<126545, 126546>>, <<126548, 126548>>, <<126551, 126551>>, <<126553, 126553>>,
      <<126555, 126555>>, <<126557, 126557>>, <<126559, 126559>>, <<126561, 126562>>, <<126564, 126564>>, <<126567, 126570>>,
      <<126572, 126578>>, <<126580, 126583>>, <<126585, 126588>>, <<126590, 126590>>, <<126592, 126601>>, <<126603, 126619>>,
      <<126625, 126627>>, <<126629, 126633>>, <<126635, 126651>>, <<126704, 126705>>, <<126976, 127019>>, <<127024, 127123>>,
      <<127136, 127150>>, <<127153, 127167>>, <<127169, 127183>>, <<127185, 127221>>, <<127232, 127405>>, <<127462, 127490>>,
      <<127504, 127547>>, <<127552, 127560>>, <<127568, 127569>>, <<127584, 127589>>, <<127744, 128727>>, <<128733, 128748>>,
      <<128752, 128764>>, <<128768, 128883>>, <<128896, 128984>>, <<128992, 129003>>, <<129008, 129008>>, <<129024, 129035>>,
      <<129040, 129095>>, <<129104, 129113>>, <<129120, 129159>>, <<129168, 129197>>, <<129200, 129201>>, <<129280, 129619>>,
      <<129632, 129645>>, <<129648, 129652>>, <<129656, 129660>>, <<129664, 129670>>, <<129680, 129708>>, <<129712, 129722>>,
      <<129728, 129733>>, <<129744, 129753>>, <<129760, 129767>>, <<129776, 129782>>, <<129792, 129938>>, <<129940, 129994>>,
      <<130032, 130041>>, <<131072, 173791>>, <<173824, 177976>>, <<177984, 178205>>, <<178208, 183969>>, <<183984, 191456>>,
      <<194560, 195101>>, <<196608, 201546>>, <<917760, 917999>>>>

\* c in base 16 with n digits, as repr writes it
hex(c, n) ==
    [i \in 1..n |-> Str("0123456789abcdef")[((c \div 16^(n - i)) % 16) + 1]]

RECURSIVE concat(_, _, _)
\* parts[lo] \o ... \o parts[hi], by halves
concat(parts, lo, hi) ==
    IF lo > hi THEN <<>>
    ELSE IF lo = hi THEN parts[lo]
    ELSE concat(parts, lo, (lo + hi) \div 2)
         \o concat(parts, (lo + hi) \div 2 + 1, hi)

\* repr(s) of a str: between double quotes when s has an apostrophe and no
\* double quote, between apostrophes otherwise; the quote character and the
\* backslash get a backslash, tab, newline and carriage return their letter,
\* and every other character that str.isprintable() rejects its code as
\* \xhh, \uhhhh or \Uhhhhhhhh
repr(s) ==
    Only({ <<quote>>
           \o concat([i \in 1..Len(s) |->
                         IF s[i] = quote \/ s[i] = ord("\\") THEN <<ord("\\"), s[i]>>
                         ELSE IF s[i] = 9 THEN Str("\\t")
                         ELSE IF s[i] = 10 THEN Str("\\n")
                         ELSE IF s[i] = 13 THEN Str("\\r")
                         ELSE IF s[i] < 32 \/ s[i] = 127 THEN Str("\\x") \o hex(s[i], 2)
                         ELSE IF s[i] < 127 \/ InRanges(s[i], PrintableRanges)
                              THEN <<s[i]>>
                         ELSE IF s[i] < 256 THEN Str("\\x") \o hex(s[i], 2)
                         ELSE IF s[i] < 65536 THEN Str("\\u") \o hex(s[i], 4)
                         ELSE Str("\\U") \o hex(s[i], 8)],
                     1, Len(s))
           \o <<quote>> :
           quote \in {IF ord("'") \in Range(s) /\ ord("\"") \notin Range(s)
                      THEN ord("\"") ELSE ord("'")} })

\* str.rfind of one character, 1-based; 0 when absent
rfind(s, c) ==
    LET at == {i \in 1..Len(s) : s[i] = c}
    IN IF at = {} THEN 0 ELSE Max(at)

\* t in s
contains(s, t) ==
    \E i \in 1..(Len(s) - Len(t) + 1) : SubSeq(s, i, i + Len(t) - 1) = t

\* str.strip()
strip(s) ==
    LET ns == {i \in 1..Len(s) : s[i] \notin Whitespace}
    IN IF ns = {} THEN <<>> ELSE SubSeq(s, Min(ns), Max(ns))

\* len(s.split())
split_count(s) ==
    Cardinality({i \in 1..Len(s) :
                    s[i] \notin Whitespace /\ (i = 1 \/ s[i-1] \in Whitespace)})

\* os.path.splitext(p)[1]: from the last dot of the last path component,
\* unless that component has only dots before it
splitext_ext(p) ==
    LET sepIndex == rfind(p, ord("/"))
        dotIndex == rfind(p, ord("."))
    IN IF dotIndex > sepIndex
          /\ \E k \in (sepIndex + 1)..(dotIndex - 1) : p[k] # ord(".")
       THEN SubSeq(p, dotIndex, Len(p))
       ELSE <<>>

\* os.path.basename(p)
basename(p) == SubSeq(p, rfind(p, ord("/")) + 1, Len(p))

----------------------------------------------------------------------------
(* The fields __init__ assigns *)

supported_formats ==
    { Str(".png"), Str(".jpg"), Str(".jpeg"), Str(".gif"), Str(".bmp"),
      Str(".tiff"), Str(".webp") }

max_image_size == 3000

\* the local variables of __init__ when its body starts: line 46 assigns
\* EASYOCR_AVAILABLE and the function has no global statement, so the name
\* is a local variable of __init__ throughout, and nothing has bound it yet
InitFrame == [EASYOCR_AVAILABLE |-> "unbound"]

UnboundLocalMsg ==
    "cannot access local variable 'EASYOCR_AVAILABLE' where it is not associated with a value"

\* lines 33-55, OCRPipeline(): [raised, msg, flag, reader].  flag is the
\* module global EASYOCR_AVAILABLE after the call, reader tells whether
\* self.reader was assigned; reader_ok says that easyocr.Reader(...) returns.
\* Line 39 reads the local variable; line 46 would assign the local one
OCRPipeline_init(flag, reader_ok) ==
    IF InitFrame.EASYOCR_AVAILABLE = "unbound"
    THEN [raised |-> TRUE, msg |-> UnboundLocalMsg, flag |-> flag,
          reader |-> "missing"]
    ELSE IF InitFrame.EASYOCR_AVAILABLE = "True" /\ reader_ok
    THEN [raised |-> FALSE, msg |-> "", flag |-> flag, reader |-> "ready"]
    ELSE [raised |-> FALSE, msg |-> "", flag |-> flag, reader |-> "missing"]

----------------------------------------------------------------------------
(* validate_image *)

\* a mutant: the existence test is left out
validate_image_no_exists(fs, image_path) ==
    lower(splitext_ext(image_path)) \in supported_formats

\* lines 67-80; fs is the file system os.path.exists looks at
validate_image(fs, image_path) ==
    IF image_path \notin DOMAIN fs THEN FALSE
    ELSE IF lower(splitext_ext(image_path)) \notin supported_formats THEN FALSE
    ELSE TRUE

----------------------------------------------------------------------------
(* _post_process_text *)

RECURSIVE RunEnd(_, _, _)
\* one past the maximal run of characters of cs that starts at s[i]
RunEnd(s, i, cs) ==
    IF i <= Len(s) /\ s[i] \in cs THEN RunEnd(s, i + 1, cs) ELSE i

RECURSIVE re_sub_runs(_, _, _, _, _)
\* re.sub(r'[cs]{n,}', rep, s) from position i on: every maximal run of at
\* least n characters of cs becomes rep
re_sub_runs(s, i, cs, n, rep) ==
    IF i > Len(s) THEN <<>>
    ELSE LET j == RunEnd(s, i, cs)
         IN IF j - i >= n THEN rep \o re_sub_runs(s, j, cs, n, rep)
            ELSE IF j > i THEN SubSeq(s, i, j - 1) \o re_sub_runs(s, j, cs, n, rep)
            ELSE <<s[i]>> \o re_sub_runs(s, i + 1, cs, n, rep)

\* \b[a-zA-Z]\b matches at i
isolated_letter(s, i) ==
    /\ s[i] \in Letters
    /\ \A j \in {i - 1, i + 1} \cap (1..Len(s)) : ~IsWordChar(s[j])

RECURSIVE drop_isolated(_, _)
\* re.sub(r'\b[a-zA-Z]\b', '', s) from position i on
drop_isolated(s, i) ==
    IF i > Len(s) THEN <<>>
    ELSE (IF isolated_letter(s, i) THEN <<>> ELSE <<s[i]>>) \o drop_isolated(s, i + 1)

\* lines 321-336
_post_process_text(text) ==
    IF text = <<>> THEN text
    ELSE LET t1 == re_sub_runs(strip(text), 1, Whitespace, 1, Str(" "))
             t2 == re_sub_runs(t1, 1, {ord("|")}, 2, Str("l"))
             t3 == re_sub_runs(t2, 1, {ord("0")}, 2, Str("o"))
         IN drop_isolated(t3, 1)

----------------------------------------------------------------------------
(* _classify_content and _generate_suggestions *)

MathChars == {Str("+-*/=()[]{}")[i] : i \in 1..11}

scientific_terms ==
    { Str("equation"), Str("formula"), Str("theorem"), Str("hypothesis"),
      Str("experiment") }

ShortWords == 20
LongWords == 50

\* a mutant: the length rules are tried before the symbol and vocabulary rules
_classify_content_length_first(text) ==
    IF text = <<>> THEN "unknown"
    ELSE IF split_count(text) < ShortWords THEN "handwritten_notes"
    ELSE IF split_count(text) > LongWords THEN "textbook"
    ELSE IF \E i \in 1..Len(text) : text[i] \in MathChars THEN "mathematical"
    ELSE IF \E term \in scientific_terms : contains(lower(text), term) THEN "scientific"
    ELSE "general"

\* a mutant: the empty text is not singled out
_classify_content_no_unknown(text) ==
    IF \E i \in 1..Len(text) : text[i] \in MathChars THEN "mathematical"
    ELSE IF \E term \in scientific_terms : contains(lower(text), term) THEN "scientific"
    ELSE IF split_count(text) < ShortWords THEN "handwritten_notes"
    ELSE IF split_count(text) > LongWords THEN "textbook"
    ELSE "general"

\* a mutant: the rule for short texts is left out
_classify_content_no_notes(text) ==
    IF text = <<>> THEN "unknown"
    ELSE IF \E i \in 1..Len(text) : text[i] \in MathChars THEN "mathematical"
    ELSE IF \E term \in scientific_terms : contains(lower(text), term) THEN "scientific"
    ELSE IF split_count(text) > LongWords THEN "textbook"
    ELSE "general"

\* lines 338-362
_classify_content(text) ==
    IF text = <<>> THEN "unknown"
    ELSE IF \E i \in 1..Len(text) : text[i] \in MathChars THEN "mathematical"
    ELSE IF \E term \in scientific_terms : contains(lower(text), term) THEN "scientific"
    ELSE IF split_count(text) < ShortWords THEN "handwritten_notes"
    ELSE IF split_count(text) > LongWords THEN "textbook"
    ELSE "general"

\* a mutant: without the else branch the dict of lines 366-370 is returned as is
_generate_suggestions_no_default(text, content_type) ==
    IF content_type = "mathematical" THEN
        [summary |-> "Mathematical content detected. Consider breaking down into steps.",
         explanation |-> "Focus on understanding the mathematical concepts and formulas.",
         quiz_questions |-> <<"Can you solve this equation step by step?",
                              "What mathematical principles are being applied here?">>]
    ELSE IF content_type = "scientific" THEN
        [summary |-> "Scientific content detected. Focus on key concepts and definitions.",
         explanation |-> "Understand the scientific principles and their applications.",
         quiz_questions |-> <<"What are the main scientific concepts mentioned?",
                              "How would you explain this to someone else?">>]
    ELSE IF content_type = "handwritten_notes" THEN
        [summary |-> "Handwritten notes detected. Organize key points into structured format.",
         explanation |-> "Review and expand on your notes for better understanding.",
         quiz_questions |-> <<"What are the main points from these notes?",
                              "How can you organize this information better?">>]
    ELSE [summary |-> "", explanation |-> "", quiz_questions |-> <<>>]

\* lines 364-401
_generate_suggestions(text, content_type) ==
    IF content_type = "mathematical" THEN
        [summary |-> "Mathematical content detected. Consider breaking down into steps.",
         explanation |-> "Focus on understanding the mathematical concepts and formulas.",
         quiz_questions |-> <<"Can you solve this equation step by step?",
                              "What mathematical principles are being applied here?">>]
    ELSE IF content_type = "scientific" THEN
        [summary |-> "Scientific content detected. Focus on key concepts and definitions.",
         explanation |-> "Understand the scientific principles and their applications.",
         quiz_questions |-> <<"What are the main scientific concepts mentioned?",
                              "How would you explain this to someone else?">>]
    ELSE IF content_type = "handwritten_notes" THEN
        [summary |-> "Handwritten notes detected. Organize key points into structured format.",
         explanation |-> "Review and expand on your notes for better understanding.",
         quiz_questions |-> <<"What are the main points from these notes?",
                              "How can you organize this information better?">>]
    ELSE
        [summary |-> "General content detected. Extract key information and main ideas.",
         explanation |-> "Break down complex concepts into simpler terms.",
         quiz_questions |-> <<"What are the main ideas presented?",
                              "How would you summarize this content?">>]

----------------------------------------------------------------------------
(* Images, the file system and the library calls *)

\* what cv2.imread returns for a missing or undecodable file (None)
NoImage == [src |-> <<>>, w |-> 0, h |-> 0, ops |-> <<>>, decodable |-> FALSE]

OnDisk(p, w, h, dec) == [src |-> p, w |-> w, h |-> h, ops |-> <<>>, decodable |-> dec]

PagePng   == Str("a.png")
ScanJpg   == Str("b.JPG")
NotesDocx == Str("notes.docx")
DotPng    == Str(".png")
AnimGif   == Str("c.gif")
GonePng   == Str("gone.png")
DirDotF   == Str("x.d/f")
StripBmp  == Str("s.bmp")

\* the paths handed to the pipeline; GonePng does not exist
InputPaths ==
    {PagePng, ScanJpg, NotesDocx, DotPng, AnimGif, GonePng, DirDotF, StripBmp}

\* the caller's files: AnimGif has a supported extension and cannot be decoded,
\* StripBmp is a strip one pixel high
InitialFiles ==
    (PagePng :> OnDisk(PagePng, 400, 200, TRUE))
    @@ (ScanJpg :> OnDisk(ScanJpg, 6000, 4000, TRUE))
    @@ (NotesDocx :> OnDisk(NotesDocx, 0, 0, FALSE))
    @@ (DotPng :> OnDisk(DotPng, 40, 20, TRUE))
    @@ (AnimGif :> OnDisk(AnimGif, 0, 0, FALSE))
    @@ (DirDotF :> OnDisk(DirDotF, 40, 20, TRUE))
    @@ (StripBmp :> OnDisk(StripBmp, 10000, 1, TRUE))

DigitChar(k) == Str("0123456789")[k + 1]

\* the names tempfile.mktemp(suffix='.png') draws from
TempName(k) ==
    Str("/tmp/tmp") \o <<DigitChar(k)>> \o Str(".png")
NumTempNames == MaxBatch + 1
TempNames == {TempName(k) : k \in 1..NumTempNames}

\* a mutant: one fixed temp-file name for every invocation
mktemp_fixed(fs) == TempName(1)

Workers == 1..NumWorkers

\* tempfile.mktemp, its contract: any name that does not exist at the moment
\* of the call; the file is not created
mktemp_candidates(fs) == {name \in TempNames : name \notin DOMAIN fs}

\* tempfile.mktemp: a name that does not exist at the moment of the call
mktemp(fs) == TempName(Min({k \in 1..NumTempNames : TempName(k) \notin DOMAIN fs}))

\* cv2.imread
imread(fs, p) ==
    IF p \in DOMAIN fs /\ fs[p].decodable THEN fs[p] ELSE NoImage

\* os.remove
remove(fs, p) == [q \in DOMAIN fs \ {p} |-> fs[q]]

\* str(e) of the cv2.error that cv2.cvtColor raises for None.  The text
\* before "error:" names the installed build and its source line; this is
\* the one of opencv-python 4.8.0
CvtColorEmptyMsg ==
    "OpenCV(4.8.0) /io/opencv/modules/imgproc/src/color.cpp:182: error: (-215:Assertion failed) !_src.empty() in function 'cvtColor'\n"

\* str(e) values of the exceptions the environment raises; MemoryError() has ""
ExcMessages == {"", "[Errno 28] No space left on device"}

----------------------------------------------------------------------------
(* preprocess_image *)

preprocessing_config ==
    [deskew_threshold |-> <<1, 2>>,       \* 0.5
     noise_reduction |-> TRUE,
     contrast_enhancement |-> TRUE,
     sharpen |-> TRUE,
     adaptive_threshold |-> TRUE]

Apply(image, op) == [image EXCEPT !.ops = Append(@, op)]

\* the resize step has not run
NoResize == [raised |-> FALSE, applied |-> FALSE, w |-> 0, h |-> 0]

RECURSIVE Pow2(_)
Pow2(k) == IF k = 0 THEN 1 ELSE 2 * Pow2(k - 1)

\* The arithmetic of the resize step is exact for sides up to 2^30: no
\* intermediate value below reaches 2^31.

RECURSIVE mul_divmod(_, _, _)
\* <<(n * k) div m, (n * k) mod m>> for 0 <= n <= m, by the binary digits
\* of k: h is the pair for k div 2, d its doubled remainder
mul_divmod(n, k, m) ==
    IF k = 0 THEN <<0, 0>>
    ELSE Only({ Only({ <<2 * h[1] + (d[1] \div m) + (d[2] \div m), d[2] % m>> :
                       d \in {<<2 * h[2], ((2 * h[2]) % m) + (k % 2) * n>>} }) :
                h \in {mul_divmod(n, k \div 2, m)} })

RECURSIVE pow2mod(_, _)
\* 2^e mod m, by squaring 2^(e div 2) mod m
pow2mod(e, m) ==
    IF e = 0 THEN 1 % m
    ELSE Only({ IF e % 2 = 0 THEN sq[2] ELSE (2 * sq[2]) % m :
                sq \in {mul_divmod(h, h, m) : h \in {pow2mod(e \div 2, m)}} })

\* the a with 2^-a <= max_image_size / m < 2^(1-a), for m > max_image_size
scale_binade(m) == Min({a \in 1..19 : max_image_size * Pow2(a) >= m})

\* line 102 in binary64: max_image_size / m is rounded to 53 significant bits,
\* ties to even.  The value is r / (m * 2^(52 + a)) below the quotient when
\* the rounding went down, and scale_deficit is that r; it is 0 when the
\* stored scale is the quotient or above it.  With q the remainder of
\* max_image_size * 2^(51 + a) by m, r is (2 * q) mod m, and on a tie the
\* last bit of the truncated significand, (2 * q) div m, decides
scale_deficit(m) ==
    Only({ IF 2 * ((2 * q) % m) < m THEN (2 * q) % m
           ELSE IF 2 * ((2 * q) % m) > m THEN 0
           ELSE IF ((2 * q) \div m) % 2 = 0 THEN (2 * q) % m
           ELSE 0 :
           q \in {mul_divmod(max_image_size, pow2mod(51 + scale_binade(m), m), m)[2]} })

\* the e with 2^(e-1) < k <= 2^e, for 1 <= k <= max_image_size
ceil_log2(k) == Cardinality({e \in 0..11 : Pow2(e) < k})

\* n times a scale with deficit r, rounded to 53 bits, is the whole number
\* K = n * max_image_size / m: n * r / (m * 2^(52 + a)) is at most half the
\* spacing of the doubles below K, which is 2^(e - 53) for 2^e < K <= 2^(e + 1).
\* With x = a + e - 1 that is n * r <= m * 2^x, and p is n * r divided by m
rounds_to_whole(n, m, K, r) ==
    \E x \in {scale_binade(m) + ceil_log2(K) - 2}, p \in {mul_divmod(r, n, m)} :
        IF x >= 0 THEN p[1] < Pow2(x) \/ (p[1] = Pow2(x) /\ p[2] = 0)
        ELSE p[1] = 0 /\ 2 * p[2] <= m

\* lines 103-104: int(n * scale) for scale = max_image_size / m in binary64.
\* The result differs from the exact quotient only when that is a whole
\* number and the rounded product falls below it; then int() gives one less
scaled(n, m) ==
    Only({ IF p[2] # 0 THEN p[1]
           ELSE Only({ IF r = 0 \/ rounds_to_whole(n, m, p[1], r)
                       THEN p[1] ELSE p[1] - 1 :
                       r \in {scale_deficit(m)} }) :
           p \in {mul_divmod(n, max_image_size, m)} })

\* lines 100-104: (new_width, new_height) for the shape (height, width)
new_size(height, width) ==
    Only({ <<scaled(d[2], d[3]), scaled(d[1], d[3])>> :
           d \in {<<height, width, Max({height, width})>>} })

\* lines 100-106
resize(image) ==
    IF Max({image.h, image.w}) > max_image_size
    THEN Only({ [Apply(image, "resize") EXCEPT !.w = size[1], !.h = size[2]] :
                size \in {new_size(image.h, image.w)} })
    ELSE image

\* line 105: cv2.resize raises cv2.error for a target size with a zero
resize_raises(image) ==
    /\ Max({image.h, image.w}) > max_image_size
    /\ \E size \in {new_size(image.h, image.w)} : size[1] = 0 \/ size[2] = 0

\* a mutant: the angle of the rectangle is compared as it comes
deskew_case_raw_angle(foreground, angle, raises) ==
    IF raises THEN "raise"
    ELSE IF ~foreground THEN "nofg"
    ELSE IF Abs(angle) * preprocessing_config.deskew_threshold[2]
               > preprocessing_config.deskew_threshold[1] * 100
         THEN "large"
    ELSE "small"

\* lines 142-149: what the pixels make of the stage.  foreground is
\* len(coords) > 0, angle is cv2.minAreaRect(coords)[-1] in hundredths of a
\* degree, raises says that one of the numpy or cv2 calls raises
deskew_case(foreground, angle, raises) ==
    IF raises THEN "raise"
    ELSE IF ~foreground THEN "nofg"
    ELSE IF Abs(IF angle < -4500 THEN 9000 + angle ELSE angle)
               * preprocessing_config.deskew_threshold[2]
               > preprocessing_config.deskew_threshold[1] * 100
         THEN "large"
    ELSE "small"

\* lines 138-161; env.deskew is what the pixels give: no foreground, an angle
\* within the threshold, an angle beyond it, or an exception in the cv2 calls
_apply_deskewing(image, env) ==
    IF env.deskew = "large" THEN Apply(image, "rotate") ELSE image

\* a mutant: sharpening runs before noise reduction and contrast enhancement
enabled_stages_sharpen_first(config) ==
    (IF config.sharpen THEN <<"sharpen">> ELSE <<>>)
    \o (IF config.noise_reduction THEN <<"noise">> ELSE <<>>)
    \o (IF config.contrast_enhancement THEN <<"contrast">> ELSE <<>>)
    \o (IF config.adaptive_threshold THEN <<"threshold">> ELSE <<>>)

\* lines 115-128: the stages after deskewing that self.preprocessing_config
\* enables, in the order of the if statements
enabled_stages(config) ==
    (IF config.noise_reduction THEN <<"noise">> ELSE <<>>)
    \o (IF config.contrast_enhancement THEN <<"contrast">> ELSE <<>>)
    \o (IF config.sharpen THEN <<"sharpen">> ELSE <<>>)
    \o (IF config.adaptive_threshold THEN <<"threshold">> ELSE <<>>)

RECURSIVE RunStages(_, _, _)
\* lines 115-128: [exc, image]; the stage named env.stage raises
RunStages(image, stages, env) ==
    IF stages = <<>> THEN [exc |-> FALSE, image |-> image]
    ELSE IF env.stage = Head(stages) THEN [exc |-> TRUE, image |-> image]
    ELSE RunStages(Apply(image, Head(stages)), Tail(stages), env)

\* lines 93-131, the try block, on an instance whose preprocessing_config is
\* config: [exc, image]
preprocess_try_on(config, fs, image_path, env) ==
    Only({ IF \/ image = NoImage
              \/ resize_raises(image)
              \/ env.stage = "resize" /\ resize(image) # image
              \/ env.stage = "gray"
           THEN [exc |-> TRUE, image |-> NoImage]
           ELSE RunStages(_apply_deskewing(Apply(resize(image), "gray"), env),
                          enabled_stages(config), env) :
           image \in {imread(fs, image_path)} })

\* lines 93-136 on an instance whose preprocessing_config is config:
\* [exc, msg, image]; the except clause reads the file again
preprocess_image_on(config, fs, image_path, env) ==
    Only({ IF ~t.exc THEN [exc |-> FALSE, msg |-> "", image |-> t.image]
           ELSE IF again = NoImage
                THEN [exc |-> TRUE, msg |-> CvtColorEmptyMsg, image |-> NoImage]
           ELSE IF env.fallback_raises
                THEN [exc |-> TRUE, msg |-> env.msg, image |-> NoImage]
           ELSE [exc |-> FALSE, msg |-> "", image |-> Apply(again, "gray")] :
           t \in {preprocess_try_on(config, fs, image_path, env)},
           again \in {imread(fs, image_path)} })

\* lines 93-136: [exc, msg, image]
preprocess_image(fs, image_path, env) ==
    preprocess_image_on(preprocessing_config, fs, image_path, env)

----------------------------------------------------------------------------
(* The result dictionaries *)

Fraction(n, d) == [num |-> n, den |-> d]
Zero == Fraction(0, 1)          \* 0.0

RECURSIVE SumConf(_)
SumConf(rs) == IF rs = <<>> THEN 0 ELSE Head(rs).conf + SumConf(Tail(rs))

\* a mutant: the confidences are added up and not averaged
sum_confidence(rs) == Fraction(SumConf(rs), 100)

\* line 265, np.mean(confidences); a region's conf is in hundredths
mean_confidence(rs) == Fraction(SumConf(rs), 100 * Len(rs))

RECURSIVE JoinText(_)
\* line 263, ' '.join([text[1] for text in results])
JoinText(rs) ==
    IF rs = <<>> THEN <<>>
    ELSE IF Len(rs) = 1 THEN Head(rs).text
    ELSE Head(rs).text \o Str(" ") \o JoinText(Tail(rs))

\* lines 204-209
InvalidResult ==
    [success |-> FALSE, error |-> "Invalid image file", text |-> <<>>,
     confidence |-> Zero]

\* a mutant: the handler keeps no confidence of zero
ExceptResultHalf(msg) ==
    [success |-> FALSE, error |-> msg, text |-> <<>>, confidence |-> Fraction(1, 2)]

\* lines 242-247; msg is str(e)
ExceptResult(msg) ==
    [success |-> FALSE, error |-> msg, text |-> <<>>, confidence |-> Zero]

\* lines 255-260
NoTextResult ==
    [success |-> FALSE, error |-> "No text detected", text |-> <<>>,
     confidence |-> Zero]

\* lines 267-274
EasyOcrResult(rs) ==
    Only({ [success |-> TRUE, text |-> text, confidence |-> mean_confidence(rs),
            word_count |-> split_count(text), char_count |-> Len(text),
            preprocessed |-> TRUE] :
           text \in {JoinText(rs)} })

BasicText ==
    Str("[Text structure detected - OCR processing recommended]")

BasicNote == "Basic processing only - install EasyOCR for full text extraction"

\* line 300, min(0.3, text_regions / 100.0) if text_regions > 0 else 0.0
basic_confidence(text_regions) ==
    IF text_regions > 0
    THEN (IF text_regions < 30 THEN Fraction(text_regions, 100) ELSE Fraction(30, 100))
    ELSE Zero

\* a mutant: the placeholder text has no brackets and no hyphen
BasicResult_plain_text(text_regions) ==
    [success |-> TRUE, text |-> SubSeq(BasicText, 2, 24),
     confidence |-> basic_confidence(text_regions),
     word_count |-> text_regions, char_count |-> text_regions * 5,
     preprocessed |-> TRUE, note |-> BasicNote]

\* lines 302-310
BasicResult(text_regions) ==
    [success |-> TRUE, text |-> BasicText, confidence |-> basic_confidence(text_regions),
     word_count |-> text_regions, char_count |-> text_regions * 5,
     preprocessed |-> TRUE, note |-> BasicNote]

\* lines 314-319
BasicFailedResult ==
    [success |-> FALSE, error |-> "Text extraction failed", text |-> <<>>,
     confidence |-> Zero]

----------------------------------------------------------------------------
(* The extraction backends: [result, calls] *)

\* lines 280-319; cv2.Canny raises for the None that cv2.imread returns
_extract_with_basic_processing(fs, image_path, env) ==
    [result |-> IF imread(fs, image_path) = NoImage \/ env.basic_raises
                THEN BasicFailedResult
                ELSE BasicResult(env.text_regions),
     calls |-> <<"_extract_with_basic_processing">>]

\* self.reader.readtext raises: no reader attribute, no readable image, or
\* a failure inside EasyOCR
readtext_raises(rd, fs, image_path, env) ==
    rd # "ready" \/ imread(fs, image_path) = NoImage \/ env.reader_raises

\* lines 249-278
_extract_with_easyocr(rd, fs, image_path, env) ==
    IF readtext_raises(rd, fs, image_path, env)
    THEN Only({ [result |-> b.result,
                 calls |-> <<"_extract_with_easyocr">> \o b.calls] :
                b \in {_extract_with_basic_processing(fs, image_path, env)} })
    ELSE [result |-> IF env.regions = <<>> THEN NoTextResult
                     ELSE EasyOcrResult(env.regions),
          calls |-> <<"_extract_with_easyocr">>]

----------------------------------------------------------------------------
(* extract_text *)

\* what the environment does during one extract_text invocation
DefaultEnv ==
    [stage |-> "none",            \* the preprocessing stage that raises
     deskew |-> "small",          \* "nofg", "small", "large" or "raise"
     fallback_raises |-> FALSE,   \* line 136 raises although the file decodes
     mktemp_raises |-> FALSE,     \* line 214 raises
     imwrite |-> "ok",            \* line 215: "ok", "partial", "false", "raise"
     reader_raises |-> FALSE,     \* line 252 raises
     regions |-> <<>>,            \* line 252: the regions EasyOCR returns
     basic_raises |-> FALSE,      \* lines 284-297 raise
     text_regions |-> 0,          \* line 297: the contours counted as text
     remove_raises |-> FALSE,     \* line 229 raises
     msg |-> "[Errno 28] No space left on device"]   \* str(e) of what is raised

NoResult == [unset |-> TRUE]
NoPath == <<>>

\* an exception leaves the try block of extract_text
Raise(msg, calls, fs) ==
    [exc |-> TRUE, msg |-> msg, result |-> NoResult, calls |-> calls, files |-> fs]

\* the try block of extract_text reaches its return statement
Return(result, calls, fs) ==
    [exc |-> FALSE, msg |-> "", result |-> result, calls |-> calls, files |-> fs]

\* a mutant: the classifier is handed the text as the backend returned it
annotate_raw_text(result) ==
    Only({ Only({ [content_type |-> content_type,
                   suggestions |-> _generate_suggestions(text, content_type)]
                  @@ [result EXCEPT !.text = text] :
                  content_type \in {_classify_content(result.text)} }) :
           text \in {_post_process_text(result.text)} })

\* lines 232-235
annotate(result) ==
    Only({ Only({ [content_type |-> content_type,
                   suggestions |-> _generate_suggestions(text, content_type)]
                  @@ [result EXCEPT !.text = text] :
                  content_type \in {_classify_content(text)} }) :
           text \in {_post_process_text(result.text)} })

\* lines 231-238
finish(result, calls, fs) ==
    IF result.success
    THEN Return(annotate(result),
                calls \o <<"_post_process_text", "_classify_content",
                           "_generate_suggestions">>,
                fs)
    ELSE Return(result, calls, fs)

\* line 215, cv2.imwrite when it returns: the encoded image is on disk, or
\* the encoder failed and left an undecodable file, or no file was made
imwrite(fs, temp_path, image, env) ==
    IF env.imwrite = "ok" THEN (temp_path :> image) @@ fs
    ELSE IF env.imwrite = "partial" THEN (temp_path :> OnDisk(temp_path, 0, 0, FALSE)) @@ fs
    ELSE fs

\* lines 221-238
extract_and_finish(EA, rd, fs, image_to_process, preprocess, temp_path, calls, env) ==
    Only({ IF preprocess /\ temp_path \in DOMAIN fs
           THEN IF env.remove_raises
                THEN Raise(env.msg, calls \o x.calls \o <<"remove">>, fs)
                ELSE finish(x.result, calls \o x.calls \o <<"remove">>,
                            remove(fs, temp_path))
           ELSE finish(x.result, calls \o x.calls, fs) :
           x \in {IF EA THEN _extract_with_easyocr(rd, fs, image_to_process, env)
                  ELSE _extract_with_basic_processing(fs, image_to_process, env)} })

\* a mutant: the preprocessed image is written over the input file, which is
\* then read by the backend and removed
with_preprocessing_in_place(EA, rd, fs, image_path, calls, env) ==
    LET c1 == calls \o <<"preprocess_image">>
    IN Only({ IF pre.exc THEN Raise(pre.msg, c1, fs)
              ELSE IF env.imwrite = "raise"
                   THEN Raise(env.msg, c1 \o <<"imwrite">>, fs)
              ELSE extract_and_finish(EA, rd, imwrite(fs, image_path, pre.image, env),
                       image_path, TRUE, image_path, c1 \o <<"imwrite">>, env) :
              pre \in {preprocess_image(fs, image_path, env)} })

\* lines 211-238 with preprocess true
with_preprocessing(EA, rd, fs, image_path, calls, env) ==
    LET c1 == calls \o <<"preprocess_image">>
        temp_path == mktemp(fs)
    IN Only({ IF pre.exc THEN Raise(pre.msg, c1, fs)
              ELSE IF env.mktemp_raises THEN Raise(env.msg, c1 \o <<"mktemp">>, fs)
              ELSE IF env.imwrite = "raise"
                   THEN Raise(env.msg, c1 \o <<"mktemp", "imwrite">>, fs)
              ELSE extract_and_finish(EA, rd, imwrite(fs, temp_path, pre.image, env),
                       temp_path, TRUE, temp_path, c1 \o <<"mktemp", "imwrite">>, env) :
              pre \in {preprocess_image(fs, image_path, env)} })

\* a mutant: the result of validate_image is not looked at
extract_text_try_unvalidated(EA, rd, fs, image_path, preprocess, env) ==
    IF preprocess
    THEN with_preprocessing(EA, rd, fs, image_path, <<"validate_image">>, env)
    ELSE extract_and_finish(EA, rd, fs, image_path, FALSE, NoPath,
                            <<"validate_image">>, env)

\* lines 203-238, the try block: [exc, msg, result, calls, files]
extract_text_try(EA, rd, fs, image_path, preprocess, env) ==
    IF ~validate_image(fs, image_path)
    THEN Return(InvalidResult, <<"validate_image">>, fs)
    ELSE IF preprocess
    THEN with_preprocessing(EA, rd, fs, image_path, <<"validate_image">>, env)
    ELSE extract_and_finish(EA, rd, fs, image_path, FALSE, NoPath,
                            <<"validate_image">>, env)

\* a mutant: no except clause, the exception reaches the caller
extract_text_no_except(EA, rd, fs, image_path, preprocess, env) ==
    Only({ [raised |-> t.exc, result |-> t.result, calls |-> t.calls,
            files |-> t.files] :
           t \in {extract_text_try(EA, rd, fs, image_path, preprocess, env)} })

\* lines 190-247: [raised, result, calls, files]
extract_text(EA, rd, fs, image_path, preprocess, env) ==
    Only({ [raised |-> FALSE,
            result |-> IF t.exc THEN ExceptResult(t.msg) ELSE t.result,
            calls |-> t.calls,
            files |-> t.files] :
           t \in {extract_text_try(EA, rd, fs, image_path, preprocess, env)} })

----------------------------------------------------------------------------
(* What the environment may do *)

Region(text, conf) == [text |-> text, conf |-> conf]

\* the regions EasyOCR may report: text and confidence in hundredths
RegionChoices ==
    { Region(Str("x=1"), 100),
      Region(Str("note a"), 50),
      Region(Str("theorem"), 0),
      Region(Str("a"), 30) }

RegionSeqs == UNION {[1..n -> RegionChoices] : n \in 0..MaxRegions}

TextRegionCounts == {0, 7, 250}

StageFaults == {"none", "gray", "sharpen"}

\* what the backends may do: EasyOCR reports regions, or it raises and the
\* basic backend counts contours or raises too
BackendEnvs ==
    {[DefaultEnv EXCEPT !.regions = rs] : rs \in RegionSeqs}
    \cup {[DefaultEnv EXCEPT !.reader_raises = TRUE, !.text_regions = n] :
            n \in TextRegionCounts}
    \cup {[DefaultEnv EXCEPT !.reader_raises = TRUE, !.basic_raises = TRUE]}

\* preprocessing that hands over an image: <<stage that raises, deskew>>
PreprocessingOk ==
    {<<"none", "small">>, <<"none", "large">>, <<"none", "nofg">>, <<"none", "raise">>}
    \cup {<<st, "small">> : st \in StageFaults \ {"none"}}

WithRemove(e) ==
    {e} \cup {[e EXCEPT !.remove_raises = TRUE, !.msg = m] : m \in ExcMessages}

\* the environments of an invocation; a field the invocation does not reach
\* keeps its default value
EnvChoices ==
    UNION {WithRemove([b EXCEPT !.stage = v[1], !.deskew = v[2]]) :
             b \in BackendEnvs, v \in PreprocessingOk}
    \cup {[b EXCEPT !.imwrite = "false"] : b \in BackendEnvs}
    \cup WithRemove([DefaultEnv EXCEPT !.imwrite = "partial"])
    \cup {[DefaultEnv EXCEPT !.stage = st, !.fallback_raises = TRUE, !.msg = m] :
            st \in StageFaults \ {"none"}, m \in ExcMessages}
    \cup {[DefaultEnv EXCEPT !.mktemp_raises = TRUE, !.msg = m] : m \in ExcMessages}
    \cup {[DefaultEnv EXCEPT !.imwrite = "raise", !.msg = m] : m \in ExcMessages}

\* the steps of preprocess_image that may raise
PreprocessStages == {"none", "resize", "gray", "noise", "contrast", "sharpen", "threshold"}

DeskewOutcomes == {"nofg", "small", "large", "raise"}

\* the environments of a direct preprocess_image call
PreprocessEnvs ==
    {[DefaultEnv EXCEPT !.stage = st, !.deskew = d] :
        st \in PreprocessStages, d \in DeskewOutcomes}
    \cup {[DefaultEnv EXCEPT !.stage = st, !.fallback_raises = TRUE] :
            st \in PreprocessStages \ {"none"}}

\* the environments tried on each item of a batch
BatchEnvChoices ==
    { DefaultEnv,
      [DefaultEnv EXCEPT !.regions = <<Region(Str("x=1"), 100)>>],
      [DefaultEnv EXCEPT !.reader_raises = TRUE, !.text_regions = 7],
      [DefaultEnv EXCEPT !.reader_raises = TRUE, !.basic_raises = TRUE],
      [DefaultEnv EXCEPT !.imwrite = "raise"],
      [DefaultEnv EXCEPT !.imwrite = "false",
                         !.regions = <<Region(Str("x=1"), 100)>>],
      [DefaultEnv EXCEPT !.remove_raises = TRUE],
      [DefaultEnv EXCEPT !.stage = "sharpen", !.fallback_raises = TRUE] }

BatchPaths == {PagePng, NotesDocx, AnimGif}

PathLists == UNION {[1..n -> BatchPaths] : n \in 0..MaxBatch}

----------------------------------------------------------------------------
(* batch_process *)

\* lines 420-421
tag(result, image_path) ==
    [image_path |-> image_path, image_name |-> basename(image_path)] @@ result

\* a mutant: a failed item is left out
batch_append_successes(rs, result) ==
    IF result.success THEN Append(rs, result) ELSE rs

\* line 422
batch_append(rs, result) == Append(rs, result)

----------------------------------------------------------------------------
(* The state machine: one call of the public interface per behaviour *)

NoCall ==
    [called |-> FALSE, image_path |-> NoPath, preprocess |-> FALSE,
     env |-> DefaultEnv, before |-> InitialFiles,
     raised |-> FALSE, result |-> NoResult, calls |-> <<>>]

Invocation(image_path, preprocess, env, before, x) ==
    [called |-> TRUE, image_path |-> image_path, preprocess |-> preprocess,
     env |-> env, before |-> before,
     raised |-> x.raised, result |-> x.result, calls |-> x.calls]

\* a direct preprocess_image call: its arguments, whether it raised, and the
\* raster it returned
NoPreprocessCall ==
    [called |-> FALSE, image_path |-> NoPath, env |-> DefaultEnv,
     exc |-> FALSE, image |-> NoImage]

\* no worker has started
NoWorker ==
    [pc |-> "idle", image_path |-> NoPath, processed_image |-> NoImage,
     temp_path |-> NoPath, exists |-> FALSE, seen |-> NoImage,
     result |-> NoResult]

\* nothing was handed to the single functions
UnitIdle ==
    /\ workers = [w \in Workers |-> NoWorker]
    /\ input_text = <<>>
    /\ cleaned = <<>>
    /\ recleaned = <<>>
    /\ classified = ""
    /\ suggestions = <<>>
    /\ image_size = <<1, 1>>
    /\ resized = NoResize

\* no direct _apply_deskewing call was made
NoDeskewCall ==
    [called |-> FALSE, foreground |-> FALSE, angle |-> 0, raises |-> FALSE,
     input |-> NoImage, output |-> NoImage]

\* no preprocess_image call on a configured instance was made
NoStagedCall ==
    [called |-> FALSE, config |-> preprocessing_config, image_path |-> NoPath,
     env |-> DefaultEnv, failed |-> FALSE, exc |-> FALSE, image |-> NoImage]

\* no statement of extract_text or batch_process has run
NoObj ==
    [pc |-> "idle", batch |-> FALSE, paths |-> <<>>, index |-> 0,
     preprocess |-> FALSE, env |-> DefaultEnv, before |-> InitialFiles,
     result |-> 0, results |-> <<>>]

\* no OCRPipeline() call was made
NoConstruct ==
    [called |-> FALSE, importable |-> FALSE, reader_ok |-> FALSE,
     raised |-> FALSE, msg |-> "", flag |-> FALSE, reader |-> "missing"]

\* none of the single steps has run
StepIdle ==
    /\ deskewed = NoDeskewCall
    /\ staged = NoStagedCall
    /\ heap = <<>>
    /\ obj = NoObj
    /\ constructed = NoConstruct

Init ==
    /\ EASYOCR_AVAILABLE \in BOOLEAN
    /\ reader \in {"ready", "missing"}
    /\ reader = "ready" => EASYOCR_AVAILABLE
    /\ files = InitialFiles
    /\ pc = "idle"
    /\ image_paths = <<>>
    /\ batch_preprocess = FALSE
    /\ batch_index = 0
    /\ results = <<>>
    /\ returned = <<>>
    /\ last = NoCall
    /\ lastValidate = [called |-> FALSE, image_path |-> NoPath, value |-> FALSE]
    /\ lastPreprocess = NoPreprocessCall
    /\ UnitIdle
    /\ StepIdle

\* a caller runs validate_image(image_path)
ValidateCall(image_path) ==
    /\ pc = "idle"
    /\ lastValidate' = [called |-> TRUE, image_path |-> image_path,
                        value |-> validate_image(files, image_path)]
    /\ pc' = "done"
    /\ UNCHANGED <<stepVars, unitVars, lastPreprocess, EASYOCR_AVAILABLE, reader, files, image_paths, batch_preprocess,
                   batch_index, results, returned, last>>

\* a caller runs preprocess_image(image_path); an exception that leaves it is
\* recorded in lastPreprocess.exc
PreprocessCall(image_path, env) ==
    /\ pc = "idle"
    /\ \E x \in {preprocess_image(files, image_path, env)} :
          lastPreprocess' = [called |-> TRUE, image_path |-> image_path,
                             env |-> env, exc |-> x.exc, image |-> x.image]
    /\ pc' = "done"
    /\ UNCHANGED <<stepVars, unitVars, EASYOCR_AVAILABLE, reader, files, image_paths,
                   batch_preprocess, batch_index, results, returned, last,
                   lastValidate>>

\* a caller runs extract_text(image_path, preprocess)
ExtractCall(image_path, preprocess, env) ==
    /\ pc = "idle"
    /\ \E x \in {extract_text(EASYOCR_AVAILABLE, reader, files, image_path,
                               preprocess, env)} :
          /\ last' = Invocation(image_path, preprocess, env, files, x)
          /\ files' = x.files
          /\ pc' = IF x.raised THEN "raised" ELSE "done"
    /\ UNCHANGED <<stepVars, unitVars, lastPreprocess, EASYOCR_AVAILABLE, reader, image_paths, batch_preprocess,
                   batch_index, results, returned, lastValidate>>

\* a caller runs batch_process(paths, preprocess): lines 414-415
BatchCall(paths, preprocess) ==
    /\ pc = "idle"
    /\ image_paths' = paths
    /\ batch_preprocess' = preprocess
    /\ batch_index' = 0
    /\ results' = <<>>
    /\ pc' = "batch"
    /\ UNCHANGED <<stepVars, unitVars, lastPreprocess, EASYOCR_AVAILABLE, reader, files, returned, last, lastValidate>>

\* one turn of the loop, lines 417-422
BatchIter(env) ==
    /\ pc = "batch"
    /\ batch_index < Len(image_paths)
    /\ \E image_path \in {image_paths[batch_index + 1]} :
       \E x \in {extract_text(EASYOCR_AVAILABLE, reader, files, image_path,
                               batch_preprocess, env)} :
          /\ last' = Invocation(image_path, batch_preprocess, env, files, x)
          /\ files' = x.files
          /\ IF x.raised
             THEN pc' = "raised" /\ UNCHANGED <<stepVars, batch_index, results>>
             ELSE /\ pc' = "batch"
                  /\ batch_index' = batch_index + 1
                  /\ results' = batch_append(results, tag(x.result, image_path))
    /\ UNCHANGED <<stepVars, unitVars, lastPreprocess, EASYOCR_AVAILABLE, reader, image_paths, batch_preprocess,
                   returned, lastValidate>>

\* line 424
BatchReturn ==
    /\ pc = "batch"
    /\ batch_index = Len(image_paths)
    /\ returned' = results
    /\ pc' = "batch_done"
    /\ UNCHANGED <<stepVars, unitVars, lastPreprocess, EASYOCR_AVAILABLE, reader, files, image_paths, batch_preprocess,
                   batch_index, results, last, lastValidate>>

\* a caller runs OCRPipeline() in a process whose import of easyocr at lines
\* 16-20 left EASYOCR_AVAILABLE as it is; an exception that leaves __init__
\* is recorded in constructed.raised
ConstructCall(reader_ok) ==
    /\ pc = "idle"
    /\ \E x \in {OCRPipeline_init(EASYOCR_AVAILABLE, reader_ok)} :
          /\ constructed' = [called |-> TRUE, importable |-> EASYOCR_AVAILABLE,
                             reader_ok |-> reader_ok, raised |-> x.raised,
                             msg |-> x.msg, flag |-> x.flag, reader |-> x.reader]
          /\ EASYOCR_AVAILABLE' = x.flag
    /\ pc' = "constructed"
    /\ UNCHANGED <<reader, files, image_paths, batch_preprocess, batch_index,
                   results, returned, last, lastValidate, lastPreprocess, unitVars,
                   deskewed, staged, heap, obj>>

Next ==
    \/ \E reader_ok \in BOOLEAN : ConstructCall(reader_ok)
    \/ \E p \in InputPaths : ValidateCall(p)
    \/ \E p \in InputPaths, env \in PreprocessEnvs : PreprocessCall(p, env)
    \/ \E p \in InputPaths, pre \in BOOLEAN, env \in EnvChoices : ExtractCall(p, pre, env)
    \/ \E paths \in PathLists, pre \in BOOLEAN : BatchCall(paths, pre)
    \/ \E env \in BatchEnvChoices : BatchIter(env)
    \/ BatchReturn

Spec == Init /\ [][Next]_vars

----------------------------------------------------------------------------
(* Concurrent extract_text(image_path, True) invocations on one pipeline, as
   the request threads of the web apps make them.  An invocation is split
   where it reads or writes the shared file system. *)

WorkerPaths == {PagePng, NotesDocx}

WorkerEnvs ==
    { [DefaultEnv EXCEPT !.regions = <<Region(Str("x=1"), 100)>>],
      [DefaultEnv EXCEPT !.reader_raises = TRUE, !.text_regions = 7] }

\* str(e) of the FileNotFoundError that os.remove(path) raises: the message
\* embeds the path, so it is a sequence of code points as the path is
FileNotFoundMsg(path) ==
    Str("[Errno 2] No such file or directory: ") \o repr(path)

\* the worker has chosen its temp path and has not yet finished with it
Holding(w) ==
    workers[w].pc \in {"chosen", "written", "fallback", "extracted", "checked"}

\* lines 203-214: validation, preprocessing and the choice of the temp name
WorkerBegin(w, image_path, temp_path) ==
    /\ workers[w].pc = "idle"
    /\ temp_path \in mktemp_candidates(files)
    /\ LET pre == preprocess_image(files, image_path, DefaultEnv)
       IN workers' = [workers EXCEPT ![w] =
            IF ~validate_image(files, image_path)
            THEN [@ EXCEPT !.pc = "returned", !.image_path = image_path,
                           !.result = InvalidResult]
            ELSE IF pre.exc
            THEN [@ EXCEPT !.pc = "returned", !.image_path = image_path,
                           !.result = ExceptResult(pre.msg)]
            ELSE [@ EXCEPT !.pc = "chosen", !.image_path = image_path,
                           !.processed_image = pre.image,
                           !.temp_path = temp_path]]
    /\ UNCHANGED <<stepVars, EASYOCR_AVAILABLE, reader, files, pc, image_paths,
                   batch_preprocess, batch_index, results, returned, last,
                   lastValidate, lastPreprocess, input_text, cleaned, recleaned,
                   classified, suggestions, image_size, resized>>

\* line 215
WorkerImwrite(w) ==
    /\ workers[w].pc = "chosen"
    /\ files' = imwrite(files, workers[w].temp_path, workers[w].processed_image,
                        DefaultEnv)
    /\ workers' = [workers EXCEPT ![w].pc = "written"]
    /\ UNCHANGED <<stepVars, EASYOCR_AVAILABLE, reader, pc, image_paths,
                   batch_preprocess, batch_index, results, returned, last,
                   lastValidate, lastPreprocess, input_text, cleaned, recleaned,
                   classified, suggestions, image_size, resized>>

\* lines 222-225, the backend's first read of the file at the temp path:
\* self.reader.readtext at line 252 with EasyOCR, cv2.imread at line 284
\* without.  When readtext raises, the worker enters the except clause of
\* line 276 and has no result yet
WorkerExtract(w, env) ==
    /\ workers[w].pc = "written"
    /\ \E temp_path \in {workers[w].temp_path} :
          workers' = [workers EXCEPT ![w] =
            IF EASYOCR_AVAILABLE /\ readtext_raises(reader, files, temp_path, env)
            THEN [@ EXCEPT !.pc = "fallback", !.seen = imread(files, temp_path)]
            ELSE [@ EXCEPT !.pc = "extracted",
                           !.seen = imread(files, temp_path),
                           !.result =
                               IF EASYOCR_AVAILABLE
                               THEN _extract_with_easyocr(reader, files, temp_path,
                                                          env).result
                               ELSE _extract_with_basic_processing(files, temp_path,
                                                                   env).result]]
    /\ UNCHANGED <<stepVars, EASYOCR_AVAILABLE, reader, files, pc, image_paths,
                   batch_preprocess, batch_index, results, returned, last,
                   lastValidate, lastPreprocess, input_text, cleaned, recleaned,
                   classified, suggestions, image_size, resized>>

\* line 278 after readtext raised: _extract_with_basic_processing reads the
\* file at the temp path again (line 284), as it is by then
WorkerFallback(w, env) ==
    /\ workers[w].pc = "fallback"
    /\ \E temp_path \in {workers[w].temp_path} :
          workers' = [workers EXCEPT ![w] =
            [@ EXCEPT !.pc = "extracted",
                      !.seen = imread(files, temp_path),
                      !.result = _extract_with_basic_processing(files, temp_path,
                                                                env).result]]
    /\ UNCHANGED <<stepVars, EASYOCR_AVAILABLE, reader, files, pc, image_paths,
                   batch_preprocess, batch_index, results, returned, last,
                   lastValidate, lastPreprocess, input_text, cleaned, recleaned,
                   classified, suggestions, image_size, resized>>

\* line 228: os.path.exists(temp_path)
WorkerExists(w) ==
    /\ workers[w].pc = "extracted"
    /\ workers' = [workers EXCEPT ![w] =
            [@ EXCEPT !.pc = "checked",
                      !.exists = workers[w].temp_path \in DOMAIN files]]
    /\ UNCHANGED <<stepVars, EASYOCR_AVAILABLE, reader, files, pc, image_paths,
                   batch_preprocess, batch_index, results, returned, last,
                   lastValidate, lastPreprocess, input_text, cleaned, recleaned,
                   classified, suggestions, image_size, resized>>

\* lines 229-247: os.remove, which raises for a file that is gone, then the
\* post-processing and the return
WorkerFinish(w) ==
    /\ workers[w].pc = "checked"
    /\ LET temp_path == workers[w].temp_path
           gone == workers[w].exists /\ temp_path \notin DOMAIN files
       IN /\ files' = IF workers[w].exists /\ ~gone THEN remove(files, temp_path)
                      ELSE files
          /\ workers' = [workers EXCEPT ![w] =
                [@ EXCEPT !.pc = "returned",
                          !.result = IF gone
                                     THEN ExceptResult(FileNotFoundMsg(temp_path))
                                     ELSE finish(workers[w].result, <<>>, files).result]]
    /\ UNCHANGED <<stepVars, EASYOCR_AVAILABLE, reader, pc, image_paths,
                   batch_preprocess, batch_index, results, returned, last,
                   lastValidate, lastPreprocess, input_text, cleaned, recleaned,
                   classified, suggestions, image_size, resized>>

ConcNext ==
    \/ \E w \in Workers, p \in WorkerPaths, t \in TempNames : WorkerBegin(w, p, t)
    \/ \E w \in Workers : WorkerImwrite(w)
    \/ \E w \in Workers, env \in WorkerEnvs : WorkerExtract(w, env)
    \/ \E w \in Workers, env \in WorkerEnvs : WorkerFallback(w, env)
    \/ \E w \in Workers : WorkerExists(w)
    \/ \E w \in Workers : WorkerFinish(w)

ConcSpec == Init /\ [][ConcNext]_vars

----------------------------------------------------------------------------
(* Direct calls of _post_process_text: on a text, then on what it returned *)

\* 8195 is the em space U+2003, 913 the Greek capital alpha U+0391
CleanChars == {ord(" "), 8195, ord("|"), ord("0"), ord("a"), ord("B"), ord("1"), 913}

CleanInputs == UNION {[1..n -> CleanChars] : n \in 0..MaxTextLen}

\* cleaned = self._post_process_text(s)
PostProcessCall(s) ==
    /\ pc = "idle"
    /\ input_text' = s
    /\ cleaned' = _post_process_text(s)
    /\ pc' = "cleaned"
    /\ UNCHANGED <<stepVars, EASYOCR_AVAILABLE, reader, files, image_paths, batch_preprocess,
                   batch_index, results, returned, last, lastValidate,
                   lastPreprocess, workers, recleaned, classified, suggestions,
                   image_size, resized>>

\* recleaned = self._post_process_text(cleaned)
PostProcessAgain ==
    /\ pc = "cleaned"
    /\ recleaned' = _post_process_text(cleaned)
    /\ pc' = "recleaned"
    /\ UNCHANGED <<stepVars, EASYOCR_AVAILABLE, reader, files, image_paths, batch_preprocess,
                   batch_index, results, returned, last, lastValidate,
                   lastPreprocess, workers, input_text, cleaned, classified,
                   suggestions, image_size, resized>>

CleanNext ==
    \/ \E s \in CleanInputs : PostProcessCall(s)
    \/ PostProcessAgain

CleanSpec == Init /\ [][CleanNext]_vars

----------------------------------------------------------------------------
(* Direct calls of _classify_content and _generate_suggestions *)

ContentTypes ==
    {"mathematical", "scientific", "handwritten_notes", "textbook", "general",
     "unknown"}

\* the first word of a text handed to _classify_content
FirstWords ==
    { Str("note"),
      Str("x=1"),
      Str("THEOREM"),
      Str("hypothesis{"),
      Str("re-do"),
      Str("equations"),
      <<ord("a"), 9, ord("b")>>,
      <<ord("a"), 13, ord("b")>>,
      <<ord("a"), 32, 12, 32, ord("b")>>,
      <<ord("a"), 8195, ord("b")>>,
      <<201>> \o Str("QUATION") }

FillerWord == Str("ok")

RECURSIVE Fillers(_)
\* k further words, each after one space
Fillers(k) == IF k = 0 THEN <<>> ELSE Str(" ") \o FillerWord \o Fillers(k - 1)

\* a text that starts with first and has n - 1 further words
Phrase(first, n) == first \o Fillers(n - 1)

ClassifyInputs ==
    {<<>>, Str(" ")}
    \cup {Phrase(first, n) : first \in FirstWords, n \in 1..MaxWords}

SuggestTexts == {<<>>, Str("x=1"), Phrase(Str("note"), 10)}

MaxSuggestCalls == 2

\* classified = self._classify_content(s)
ClassifyCall(s) ==
    /\ pc = "idle"
    /\ input_text' = s
    /\ classified' = _classify_content(s)
    /\ pc' = "classified"
    /\ UNCHANGED <<stepVars, EASYOCR_AVAILABLE, reader, files, image_paths, batch_preprocess,
                   batch_index, results, returned, last, lastValidate,
                   lastPreprocess, workers, cleaned, recleaned, suggestions,
                   image_size, resized>>

\* self._generate_suggestions(t, ct), recorded with its arguments
SuggestCall(t, ct) ==
    /\ pc \in {"idle", "suggested"}
    /\ Len(suggestions) < MaxSuggestCalls
    /\ suggestions' = Append(suggestions,
                             [text |-> t, content_type |-> ct,
                              value |-> _generate_suggestions(t, ct)])
    /\ pc' = "suggested"
    /\ UNCHANGED <<stepVars, EASYOCR_AVAILABLE, reader, files, image_paths, batch_preprocess,
                   batch_index, results, returned, last, lastValidate,
                   lastPreprocess, workers, input_text, cleaned, recleaned,
                   classified, image_size, resized>>

ClassifyNext ==
    \/ \E s \in ClassifyInputs : ClassifyCall(s)
    \/ \E t \in SuggestTexts, ct \in ContentTypes : SuggestCall(t, ct)

ClassifySpec == Init /\ [][ClassifyNext]_vars

----------------------------------------------------------------------------
(* The resize step of preprocess_image on images of given sizes *)

\* widths and heights: around max_image_size, thin strips, and sizes at
\* which the binary64 product falls below the whole number
Dims == {1, 2, 50, 531, 1500, 2999, 3000, 3001, 3186, 4000, 4177, 6000, 6001,
         MaxDim}

\* lines 100-105 on an image of width w and height h
ResizeCall(w, h) ==
    /\ pc = "idle"
    /\ image_size' = <<w, h>>
    /\ LET image == OnDisk(NoPath, w, h, TRUE)
       IN resized' = [raised |-> resize_raises(image),
                      applied |-> resize(image) # image,
                      w |-> resize(image).w,
                      h |-> resize(image).h]
    /\ pc' = "resized"
    /\ UNCHANGED <<stepVars, EASYOCR_AVAILABLE, reader, files, image_paths, batch_preprocess,
                   batch_index, results, returned, last, lastValidate,
                   lastPreprocess, workers, input_text, cleaned, recleaned,
                   classified, suggestions>>

ResizeNext == \E w \in Dims, h \in Dims : ResizeCall(w, h)

ResizeSpec == Init /\ [][ResizeNext]_vars

----------------------------------------------------------------------------
(* Direct calls of _apply_deskewing on a grayscale raster *)

\* the rasters line 112 hands over: the grayscale of a stored image, resized
\* when it is too large
GrayRasters ==
    {Apply(resize(imread(InitialFiles, p)), "gray") : p \in {PagePng, ScanJpg, DotPng}}

\* angles cv2.minAreaRect reports, in hundredths of a degree: [-90, 0) in
\* older builds, (0, 90] in newer ones; around the threshold and around -45
RectAngles ==
    {-9000, -8951, -8950, -8949, -8900, -6000, -4501, -4500, -4499, -3000, -100,
     -51, -50, -49, -1, 0, 1, 49, 50, 51, 100, 4500, 9000}

\* self._apply_deskewing(image) on a raster whose pixels give foreground,
\* angle and raises
DeskewCall(image, foreground, angle, raises) ==
    /\ pc = "idle"
    /\ deskewed' =
          [called |-> TRUE, foreground |-> foreground, angle |-> angle,
           raises |-> raises, input |-> image,
           output |-> _apply_deskewing(image,
                        [DefaultEnv EXCEPT
                           !.deskew = deskew_case(foreground, angle, raises)])]
    /\ pc' = "deskewed"
    /\ UNCHANGED <<EASYOCR_AVAILABLE, reader, files, image_paths, batch_preprocess,
                   batch_index, results, returned, last, lastValidate,
                   lastPreprocess, unitVars, staged, heap, obj, constructed>>

\* a raster without foreground pixels has no rectangle and no angle
DeskewNext ==
    \/ \E image \in GrayRasters, angle \in RectAngles, raises \in BOOLEAN :
          DeskewCall(image, TRUE, angle, raises)
    \/ \E image \in GrayRasters, raises \in BOOLEAN :
          DeskewCall(image, FALSE, 0, raises)

DeskewSpec == Init /\ [][DeskewNext]_vars

----------------------------------------------------------------------------
(* preprocess_image on an instance whose preprocessing_config the caller set *)

\* the values self.preprocessing_config may hold: every setting of the four
\* toggles that lines 115-127 read
Configs ==
    {[preprocessing_config EXCEPT !.noise_reduction = n, !.contrast_enhancement = c,
                                  !.sharpen = sh, !.adaptive_threshold = a] :
        n \in BOOLEAN, c \in BOOLEAN, sh \in BOOLEAN, a \in BOOLEAN}

\* self.preprocessing_config = config; self.preprocess_image(image_path).
\* failed says that the try block was left by an exception
ConfiguredPreprocessCall(config, image_path, env) ==
    /\ pc = "idle"
    /\ staged' =
          Only({ [called |-> TRUE, config |-> config, image_path |-> image_path,
                  env |-> env,
                  failed |-> preprocess_try_on(config, files, image_path, env).exc,
                  exc |-> x.exc, image |-> x.image] :
                 x \in {preprocess_image_on(config, files, image_path, env)} })
    /\ pc' = "staged"
    /\ UNCHANGED <<EASYOCR_AVAILABLE, reader, files, image_paths, batch_preprocess,
                   batch_index, results, returned, last, lastValidate,
                   lastPreprocess, unitVars, deskewed, heap, obj, constructed>>

StageNext ==
    \E config \in Configs, p \in InputPaths, env \in PreprocessEnvs :
        ConfiguredPreprocessCall(config, p, env)

StageSpec == Init /\ [][StageNext]_vars

----------------------------------------------------------------------------
(* extract_text and batch_process statement by statement, with the identity
   of the dictionaries: heap[r] is the dictionary with identity r, and the
   locals result and results hold identities *)

\* lines 202-229 and 240-247 with the dictionary literals they evaluate:
\* [returns, dict, files].  returns says that the function is left at line
\* 204 or through the except clause, and not through line 238
build_result(EA, rd, fs, image_path, preprocess, env) ==
    LET pre == preprocess_image(fs, image_path, env)
        temp_path == mktemp(fs)
        fs1 == IF preprocess THEN imwrite(fs, temp_path, pre.image, env) ELSE fs
        image_to_process == IF preprocess THEN temp_path ELSE image_path
        x == IF EA THEN _extract_with_easyocr(rd, fs1, image_to_process, env)
             ELSE _extract_with_basic_processing(fs1, image_to_process, env)
    IN IF ~validate_image(fs, image_path)
       THEN [returns |-> TRUE, dict |-> InvalidResult, files |-> fs]
       ELSE IF preprocess /\ pre.exc
       THEN [returns |-> TRUE, dict |-> ExceptResult(pre.msg), files |-> fs]
       ELSE IF preprocess /\ (env.mktemp_raises \/ env.imwrite = "raise")
       THEN [returns |-> TRUE, dict |-> ExceptResult(env.msg), files |-> fs]
       ELSE IF preprocess /\ temp_path \in DOMAIN fs1
       THEN IF env.remove_raises
            THEN [returns |-> TRUE, dict |-> ExceptResult(env.msg), files |-> fs1]
            ELSE [returns |-> FALSE, dict |-> x.result,
                  files |-> remove(fs1, temp_path)]
       ELSE [returns |-> FALSE, dict |-> x.result, files |-> fs1]

\* a caller runs extract_text(image_path, preprocess)
ObjCall(image_path, preprocess) ==
    /\ obj.pc = "idle"
    /\ obj' = [obj EXCEPT !.pc = "call", !.batch = FALSE, !.paths = <<image_path>>,
                          !.preprocess = preprocess]
    /\ UNCHANGED <<EASYOCR_AVAILABLE, reader, files, pc, image_paths,
                   batch_preprocess, batch_index, results, returned, last,
                   lastValidate, lastPreprocess, unitVars, deskewed, staged, heap,
                   constructed>>

\* a caller runs batch_process(paths, preprocess): lines 414-415
ObjBatchCall(paths, preprocess) ==
    /\ obj.pc = "idle"
    /\ obj' = [obj EXCEPT !.pc = "call", !.batch = TRUE, !.paths = paths,
                          !.preprocess = preprocess]
    /\ UNCHANGED <<EASYOCR_AVAILABLE, reader, files, pc, image_paths,
                   batch_preprocess, batch_index, results, returned, last,
                   lastValidate, lastPreprocess, unitVars, deskewed, staged, heap,
                   constructed>>

\* lines 202-229: the dictionary that the name result, or the return
\* statement of line 204 or 242, refers to is built
ObjBuild(env) ==
    /\ obj.pc = "call"
    /\ obj.index < Len(obj.paths)
    /\ \E b \in {build_result(EASYOCR_AVAILABLE, reader, files,
                               obj.paths[obj.index + 1], obj.preprocess, env)} :
          /\ heap' = Append(heap, b.dict)
          /\ files' = b.files
          /\ obj' = [obj EXCEPT !.pc = IF b.returns THEN "returned" ELSE "built",
                                !.env = env, !.before = files,
                                !.result = Len(heap) + 1]
    /\ UNCHANGED <<EASYOCR_AVAILABLE, reader, pc, image_paths,
                   batch_preprocess, batch_index, results, returned, last,
                   lastValidate, lastPreprocess, unitVars, deskewed, staged,
                   constructed>>

\* lines 232-233: result['text'] = self._post_process_text(result['text']);
\* without success, line 238
ObjSetText ==
    /\ obj.pc = "built"
    /\ IF heap[obj.result].success
       THEN /\ heap' = [heap EXCEPT ![obj.result].text = _post_process_text(@)]
            /\ obj' = [obj EXCEPT !.pc = "text_set"]
       ELSE /\ obj' = [obj EXCEPT !.pc = "returned"]
            /\ UNCHANGED heap
    /\ UNCHANGED <<EASYOCR_AVAILABLE, reader, files, pc, image_paths,
                   batch_preprocess, batch_index, results, returned, last,
                   lastValidate, lastPreprocess, unitVars, deskewed, staged,
                   constructed>>

\* line 234: result['content_type'] = self._classify_content(result['text'])
ObjSetContentType ==
    /\ obj.pc = "text_set"
    /\ heap' = [heap EXCEPT ![obj.result] =
                  [content_type |-> _classify_content(@.text)] @@ @]
    /\ obj' = [obj EXCEPT !.pc = "type_set"]
    /\ UNCHANGED <<EASYOCR_AVAILABLE, reader, files, pc, image_paths,
                   batch_preprocess, batch_index, results, returned, last,
                   lastValidate, lastPreprocess, unitVars, deskewed, staged,
                   constructed>>

\* lines 235-238: result['suggestions'] = ...; return result
ObjSetSuggestions ==
    /\ obj.pc = "type_set"
    /\ heap' = [heap EXCEPT ![obj.result] =
                  [suggestions |-> _generate_suggestions(@.text, @.content_type)]
                  @@ @]
    /\ obj' = [obj EXCEPT !.pc = "returned"]
    /\ UNCHANGED <<EASYOCR_AVAILABLE, reader, files, pc, image_paths,
                   batch_preprocess, batch_index, results, returned, last,
                   lastValidate, lastPreprocess, unitVars, deskewed, staged,
                   constructed>>

\* line 420: result['image_path'] = image_path
ObjTagPath ==
    /\ obj.pc = "returned"
    /\ obj.batch
    /\ heap' = [heap EXCEPT ![obj.result] =
                  [image_path |-> obj.paths[obj.index + 1]] @@ @]
    /\ obj' = [obj EXCEPT !.pc = "path_set"]
    /\ UNCHANGED <<EASYOCR_AVAILABLE, reader, files, pc, image_paths,
                   batch_preprocess, batch_index, results, returned, last,
                   lastValidate, lastPreprocess, unitVars, deskewed, staged,
                   constructed>>

\* lines 421-422: result['image_name'] = ...; results.append(result)
ObjTagName ==
    /\ obj.pc = "path_set"
    /\ heap' = [heap EXCEPT ![obj.result] =
                  [image_name |-> basename(obj.paths[obj.index + 1])] @@ @]
    /\ obj' = [obj EXCEPT !.pc = "call", !.index = @ + 1,
                          !.results = Append(@, obj.result)]
    /\ UNCHANGED <<EASYOCR_AVAILABLE, reader, files, pc, image_paths,
                   batch_preprocess, batch_index, results, returned, last,
                   lastValidate, lastPreprocess, unitVars, deskewed, staged,
                   constructed>>

\* line 424
ObjBatchReturn ==
    /\ obj.pc = "call"
    /\ obj.batch
    /\ obj.index = Len(obj.paths)
    /\ obj' = [obj EXCEPT !.pc = "batch_done"]
    /\ UNCHANGED <<EASYOCR_AVAILABLE, reader, files, pc, image_paths,
                   batch_preprocess, batch_index, results, returned, last,
                   lastValidate, lastPreprocess, unitVars, deskewed, staged, heap,
                   constructed>>

ObjNext ==
    \/ \E p \in InputPaths, pre \in BOOLEAN : ObjCall(p, pre)
    \/ \E paths \in PathLists, pre \in BOOLEAN : ObjBatchCall(paths, pre)
    \/ \E env \in BatchEnvChoices : ObjBuild(env)
    \/ ObjSetText
    \/ ObjSetContentType
    \/ ObjSetSuggestions
    \/ ObjTagPath
    \/ ObjTagName
    \/ ObjBatchReturn

ObjSpec == Init /\ [][ObjNext]_vars

----------------------------------------------------------------------------
(* Properties *)

LeqHundredths(c, k) == c.num * 100 <= k * c.den

\* the primary backend was invoked and its reader raised
PrimaryRaised ==
    /\ last.called
    /\ EASYOCR_AVAILABLE
    /\ \E i \in 1..Len(last.calls) : last.calls[i] = "_extract_with_easyocr"
    /\ reader # "ready" \/ last.env.reader_raises

\* the basic backend was invoked right after the primary one
BasicFollowsPrimary ==
    \E i \in 1..(Len(last.calls) - 1) :
        /\ last.calls[i] = "_extract_with_easyocr"
        /\ last.calls[i + 1] = "_extract_with_basic_processing"

\* the returned result is the one the basic backend built
FromBasicBackend ==
    \/ last.result = BasicFailedResult
    \/ last.result = annotate(BasicResult(last.env.text_regions))

\* C1: batch_process returns one result per input path, in input order, each
\* carrying its path as image_path and being the result extract_text gave for
\* that path; a path that fails validation is a success=false entry
BatchOrderPreserved ==
    /\ pc \in {"batch", "batch_done"} =>
          /\ Len(results) = batch_index
          /\ \A i \in 1..Len(results) :
                /\ results[i].image_path = image_paths[i]
                /\ results[i].image_name = basename(image_paths[i])
                /\ ~validate_image(files, image_paths[i]) => ~results[i].success
          /\ batch_index > 0 =>
                /\ last.image_path = image_paths[batch_index]
                /\ last.preprocess = batch_preprocess
                /\ results[batch_index] = tag(last.result, image_paths[batch_index])
    /\ pc = "batch_done" => returned = results /\ Len(returned) = Len(image_paths)

BatchOrderWitness ==
    /\ pc = "batch_done"
    /\ Len(returned) = 2
    /\ image_paths[1] # image_paths[2]
    /\ ~returned[1].success
    /\ returned[2].success

\* C2: a failed item does not end the batch, and whatever the environment does
\* for the next item, its result is the one it would get from the state in
\* which no earlier item had run
BatchFailureIsolated ==
    /\ pc # "raised"
    /\ (pc = "batch" /\ batch_index < Len(image_paths)) =>
          \A env \in BatchEnvChoices :
              extract_text(EASYOCR_AVAILABLE, reader, files,
                           image_paths[batch_index + 1], batch_preprocess, env).result
              = extract_text(EASYOCR_AVAILABLE, reader, InitialFiles,
                             image_paths[batch_index + 1], batch_preprocess, env).result

BatchIsolationWitness ==
    /\ pc = "batch_done"
    /\ Len(returned) = 2
    /\ ~returned[1].success
    /\ returned[1].error = DefaultEnv.msg
    /\ files # InitialFiles
    /\ returned[2].success

\* C3: extract_text returns to its caller, and what it returns has success,
\* text and confidence
ExtractTextNeverRaises ==
    last.called =>
        /\ ~last.raised
        /\ {"success", "text", "confidence"} \subseteq DOMAIN last.result

ExtractTextCaughtWitness ==
    /\ last.called
    /\ last.preprocess
    /\ last.env.imwrite = "raise"
    /\ last.calls[Len(last.calls)] = "imwrite"
    /\ ~last.raised

\* C4: a result with success false has confidence 0.0
FailureHasZeroConfidence ==
    (last.called /\ ~last.raised /\ ~last.result.success) =>
        last.result.confidence.num = 0

FailureZeroConfidenceWitness ==
    /\ last.called
    /\ last.calls[Len(last.calls)] = "remove"
    /\ ~last.result.success
    /\ last.result.confidence = Zero

\* C5: the confidence of every result is between 0.0 and 1.0
ConfidenceWithinBounds ==
    (last.called /\ ~last.raised) =>
        /\ last.result.confidence.den > 0
        /\ 0 <= last.result.confidence.num
        /\ last.result.confidence.num <= last.result.confidence.den

ConfidenceMeanWitness ==
    /\ last.called
    /\ last.result.success
    /\ Len(last.env.regions) = 2
    /\ last.result.confidence = Fraction(150, 200)

\* C6: a result with success false has a non-empty error string
FailureHasExplanation ==
    (last.called /\ ~last.raised /\ ~last.result.success) =>
        /\ "error" \in DOMAIN last.result
        /\ last.result.error # ""

\* C7: for a path validate_image rejects, extract_text answers with the
\* failure result after validate_image alone: no preprocessing, no temp file,
\* no backend
InvalidInputStopsEarly ==
    (last.called /\ ~validate_image(last.before, last.image_path)) =>
        /\ ~last.raised
        /\ ~last.result.success
        /\ last.calls = <<"validate_image">>
        /\ files = last.before

InvalidInputWitness ==
    /\ last.called
    /\ last.image_path = NotesDocx
    /\ last.preprocess
    /\ ~last.result.success

\* the extension as the claim reads it: what follows the last dot of the path
SupportedExtensions ==
    { Str("png"), Str("jpg"), Str("jpeg"), Str("gif"),
      Str("bmp"), Str("tiff"), Str("webp") }

HasSupportedExtension(p) ==
    /\ rfind(p, ord(".")) > 0
    /\ lower(SubSeq(p, rfind(p, ord(".")) + 1, Len(p))) \in SupportedExtensions

\* C8: validate_image returns, changes no file, and answers true only for a
\* path that exists and whose extension, case ignored, is a supported one
ValidateImageFailsClosed ==
    lastValidate.called =>
        /\ pc = "done"
        /\ files = InitialFiles
        /\ lastValidate.value \in BOOLEAN
        /\ lastValidate.value =>
              /\ lastValidate.image_path \in DOMAIN files
              /\ HasSupportedExtension(lastValidate.image_path)

ValidateImageWitness ==
    /\ lastValidate.called
    /\ lastValidate.image_path = ScanJpg
    /\ lastValidate.value

\* C9: when the reader of the primary backend raises, the result
\* extract_text returns is the basic backend's, with confidence at most 0.3
\* and a note or error field
PrimaryFailureGivesBasicResult ==
    PrimaryRaised =>
        /\ ~last.raised
        /\ BasicFollowsPrimary
        /\ FromBasicBackend
        /\ LeqHundredths(last.result.confidence, 30)
        /\ "note" \in DOMAIN last.result \/ "error" \in DOMAIN last.result

\* the backend whose result is returned found no region
ZeroRegionsDetected ==
    /\ last.called
    /\ ~last.raised
    /\ last.calls[Len(last.calls)] \notin {"imwrite", "mktemp", "preprocess_image",
                                           "validate_image"}
    /\ ~(last.calls[Len(last.calls)] = "remove" /\ last.env.remove_raises)
    /\ \/ /\ ~BasicFollowsPrimary
          /\ EASYOCR_AVAILABLE
          /\ last.env.regions = <<>>
       \/ /\ \E i \in 1..Len(last.calls) :
                 last.calls[i] = "_extract_with_basic_processing"
          /\ last.result # BasicFailedResult
          /\ last.env.text_regions = 0

\* C10: when the backend that produces the result detects zero regions, the
\* result has success false and confidence 0.0
ZeroRegionsFail ==
    ZeroRegionsDetected =>
        /\ ~last.result.success
        /\ last.result.confidence.num = 0

\* the invocation reached line 215 and cv2.imwrite left a file at the temp path
TempFileCreated ==
    /\ last.called
    /\ last.preprocess
    /\ \E i \in 1..Len(last.calls) : last.calls[i] = "imwrite"
    /\ last.env.imwrite \in {"ok", "partial"}

\* C11: when an invocation with preprocess true has created its temp file,
\* the file does not exist once the invocation has returned, whatever the
\* exit path
TempFileGoneOnReturn ==
    TempFileCreated => mktemp(last.before) \notin DOMAIN files

\* C12: no two concurrent invocations that have chosen a temp path and not yet
\* finished with it hold the same path
NoSharedTempPath ==
    \A a, b \in Workers :
        (a # b /\ Holding(a) /\ Holding(b)) =>
            workers[a].temp_path # workers[b].temp_path

\* C13: _post_process_text applied to its own output returns that output
PostProcessIdempotent ==
    pc = "recleaned" => recleaned = cleaned

\* the symbols and the vocabulary as the rules name them
RuleSymbols ==
    {ord("+"), ord("-"), ord("*"), ord("/"), ord("="), ord("("), ord(")"),
     ord("["), ord("]"), ord("{"), ord("}")}

RuleTerms ==
    { Str("equation"), Str("formula"), Str("theorem"),
      Str("hypothesis"), Str("experiment") }

HasRuleSymbol(t) == \E i \in 1..Len(t) : t[i] \in RuleSymbols

HasRuleTerm(t) ==
    \E term \in RuleTerms : \E i \in 1..Len(t) :
        /\ i + Len(term) - 1 <= Len(t)
        /\ \A j \in 1..Len(term) : lower(t)[i + j - 1] = term[j]

\* C14: for a non-empty text the rules are tried in order and the first that
\* matches decides: a symbol gives mathematical, else a term (case ignored)
\* gives scientific, else fewer than 20 words give handwritten_notes, else
\* more than 50 words give textbook, else (20 to 50 words) general
ClassifyRuleOrder ==
    (pc = "classified" /\ input_text # <<>>) =>
        /\ HasRuleSymbol(input_text) => classified = "mathematical"
        /\ (~HasRuleSymbol(input_text) /\ HasRuleTerm(input_text)) =>
              classified = "scientific"
        /\ (~HasRuleSymbol(input_text) /\ ~HasRuleTerm(input_text)) =>
              /\ split_count(input_text) < 20 => classified = "handwritten_notes"
              /\ split_count(input_text) > 50 => classified = "textbook"
              /\ split_count(input_text) \in 20..50 => classified = "general"

ClassifyOrderWitness ==
    /\ pc = "classified"
    /\ split_count(input_text) > 50
    /\ HasRuleSymbol(input_text)
    /\ HasRuleTerm(input_text)
    /\ classified = "mathematical"

\* C15: _classify_content answers unknown for the empty text, and for every
\* text one of the six labels
ClassifyTotal ==
    pc = "classified" =>
        /\ classified \in {"mathematical", "scientific", "handwritten_notes",
                           "textbook", "general", "unknown"}
        /\ input_text = <<>> => classified = "unknown"

ClassifyUnknownWitness ==
    /\ pc = "classified"
    /\ input_text = <<>>
    /\ classified = "unknown"

\* C16 as stated: a text of 10 words with none of the five scientific terms is
\* classified as handwritten_notes
TenWordsAreNotes ==
    (pc = "classified" /\ split_count(input_text) = 10 /\ ~HasRuleTerm(input_text)) =>
        classified = "handwritten_notes"

\* C16 as amended: a text of 10 words with none of the symbols and none of the
\* five scientific terms is classified as handwritten_notes
TenPlainWordsAreNotes ==
    (/\ pc = "classified"
     /\ split_count(input_text) = 10
     /\ ~HasRuleSymbol(input_text)
     /\ ~HasRuleTerm(input_text)) =>
        classified = "handwritten_notes"

TenWordsWitness ==
    /\ pc = "classified"
    /\ input_text = Phrase(Str("note"), 10)
    /\ split_count(input_text) = 10
    /\ classified = "handwritten_notes"

\* C17: every _generate_suggestions call with one of the six content types
\* returns a non-empty summary, a non-empty explanation and two quiz
\* questions, and two calls with the same content type return the same
\* whatever their texts
SuggestionsTotal ==
    /\ \A i \in 1..Len(suggestions) :
          /\ suggestions[i].value.summary # ""
          /\ suggestions[i].value.explanation # ""
          /\ Len(suggestions[i].value.quiz_questions) = 2
    /\ \A i, j \in 1..Len(suggestions) :
          suggestions[i].content_type = suggestions[j].content_type =>
              suggestions[i].value = suggestions[j].value

SuggestionsWitness ==
    /\ Len(suggestions) = 2
    /\ suggestions[1].content_type = "unknown"
    /\ suggestions[2].content_type = "unknown"
    /\ suggestions[1].text # suggestions[2].text
    /\ suggestions[1].value = suggestions[2].value
    /\ suggestions[1].value.summary # ""

\* the stages after the grayscale conversion
LaterStages == {"noise", "contrast", "sharpen", "threshold"}

\* a direct preprocess_image call on a decodable file in which a stage after
\* the grayscale conversion raised
LaterStageRaised ==
    /\ lastPreprocess.called
    /\ imread(files, lastPreprocess.image_path) # NoImage
    /\ \/ lastPreprocess.env.stage \in LaterStages
       \/ lastPreprocess.env.stage = "none" /\ lastPreprocess.env.deskew = "raise"

\* C18: when a stage after the grayscale conversion raises, preprocess_image
\* returns the grayscale conversion of the resized image, with no later stage
\* applied
StageFailureGivesResizedGray ==
    LaterStageRaised =>
        /\ ~lastPreprocess.exc
        /\ lastPreprocess.image =
              Apply(resize(imread(files, lastPreprocess.image_path)), "gray")

\* C19: for a path validate_image accepts, preprocess_image returns a raster
\* and does not raise, and extract_text with preprocess true does not end at
\* the preprocessing step
PreprocessNeverRaises ==
    /\ (lastPreprocess.called /\ validate_image(files, lastPreprocess.image_path)) =>
          /\ ~lastPreprocess.exc
          /\ lastPreprocess.image # NoImage
    /\ (last.called /\ last.preprocess /\ validate_image(last.before, last.image_path)) =>
          last.calls[Len(last.calls)] # "preprocess_image"


\* C20: for an image with max(w, h) > max_image_size the resize step gives a
\* size whose longer edge is max_image_size up to the truncation, whose
\* shorter edge is at least 1 and whose aspect ratio is within 1% of w / h
ResizeKeepsShape ==
    (pc = "resized" /\ Max({image_size[1], image_size[2]}) > 3000) =>
        /\ resized.applied
        /\ ~resized.raised
        /\ Max({resized.w, resized.h}) \in {2999, 3000}
        /\ Min({resized.w, resized.h}) >= 1
        /\ 100 * Abs(resized.w * image_size[2] - image_size[1] * resized.h)
              <= image_size[1] * resized.h

\* the angle the threshold is applied to: lines 145-146
NormalizedAngle(angle) == IF angle < -4500 THEN 9000 + angle ELSE angle

\* half a degree, in hundredths of a degree
ThresholdHundredths == 50

\* C21: a deskew stage that finds no foreground pixel, or whose angle after
\* the normalization is at most 0.5 degrees in absolute value, returns the
\* raster it was given; only an angle beyond 0.5 degrees lets it rotate
DeskewNoOpBelowThreshold ==
    deskewed.called =>
        /\ (\/ ~deskewed.foreground
            \/ Abs(NormalizedAngle(deskewed.angle)) <= ThresholdHundredths)
           => deskewed.output = deskewed.input
        /\ deskewed.output # deskewed.input
           => /\ deskewed.foreground
              /\ Abs(NormalizedAngle(deskewed.angle)) > ThresholdHundredths
              /\ deskewed.output = Apply(deskewed.input, "rotate")

\* a rectangle angle of -89.51 degrees is 0.49 degrees after the
\* normalization, and the raster comes back as it went in
DeskewNoOpWitness ==
    /\ deskewed.called
    /\ deskewed.foreground
    /\ ~deskewed.raises
    /\ deskewed.angle = -8951
    /\ deskewed.output = deskewed.input

\* the configuration toggle of each stage that has one
StageToggle(stage) ==
    IF stage = "noise" THEN staged.config.noise_reduction
    ELSE IF stage = "contrast" THEN staged.config.contrast_enhancement
    ELSE IF stage = "sharpen" THEN staged.config.sharpen
    ELSE staged.config.adaptive_threshold

\* the stages a run that does not fail must have applied to the stored
\* image, in order: resize for an image that is too large, grayscale,
\* rotation when the deskew stage finds a large angle, then the enabled ones
StagesDue ==
    (IF Max({files[staged.image_path].w, files[staged.image_path].h}) > max_image_size
     THEN <<"resize">> ELSE <<>>)
    \o <<"gray">>
    \o (IF staged.env.deskew = "large" THEN <<"rotate">> ELSE <<>>)
    \o SelectSeq(<<"noise", "contrast", "sharpen", "threshold">>, StageToggle)

\* C22: a preprocess_image run that does not fail has applied, to the image
\* it read, exactly the stages resize, grayscale, deskew, noise reduction,
\* contrast enhancement, sharpen, adaptive threshold in this order, each on
\* the output of the one before, and none of the stages whose toggle is false
StagesInFixedOrder ==
    (staged.called /\ ~staged.failed) =>
        /\ ~staged.exc
        /\ staged.image.src = staged.image_path
        /\ staged.image.ops = StagesDue

\* a run on the oversized image with two toggles off and a large skew angle
StagesOrderWitness ==
    /\ staged.called
    /\ ~staged.failed
    /\ staged.image_path = ScanJpg
    /\ ~staged.config.noise_reduction
    /\ staged.config.contrast_enhancement
    /\ ~staged.config.sharpen
    /\ staged.config.adaptive_threshold
    /\ staged.image.ops = <<"resize", "gray", "rotate", "contrast", "threshold">>

\* the place of a call in the control flow of extract_text: validator,
\* preprocessing with the writing of its output, backend, cleanup,
\* post-processor, classifier, suggestion generator
ComponentRank(c) ==
    CASE c = "validate_image" -> 1
      [] c = "preprocess_image" -> 2
      [] c = "mktemp" -> 3
      [] c = "imwrite" -> 4
      [] c \in {"_extract_with_easyocr", "_extract_with_basic_processing"} -> 5
      [] c = "remove" -> 6
      [] c = "_post_process_text" -> 7
      [] c = "_classify_content" -> 8
      [] c = "_generate_suggestions" -> 9

Backends == {"_extract_with_easyocr", "_extract_with_basic_processing"}

Called(c) == \E i \in 1..Len(last.calls) : last.calls[i] = c

\* C23: an extract_text run calls the validator first, then preprocessing
\* exactly when it was requested, then the backend, the post-processor, the
\* classifier and the suggestion generator, each at most once and in this
\* order; a backend runs only after validation succeeded; the returned
\* content_type is the classifier's label for the post-processed text, and
\* the returned suggestions are those for that text and that label
ComponentsInOrder ==
    last.called =>
        /\ last.calls # <<>> /\ last.calls[1] = "validate_image"
        /\ \A i, j \in 1..Len(last.calls) :
              i < j => \/ ComponentRank(last.calls[i]) < ComponentRank(last.calls[j])
                       \/ /\ last.calls[i] = "_extract_with_easyocr"
                          /\ last.calls[j] = "_extract_with_basic_processing"
        /\ Called("preprocess_image")
              <=> (last.preprocess /\ validate_image(last.before, last.image_path))
        /\ (\E b \in Backends : Called(b))
              => validate_image(last.before, last.image_path)
        /\ Called("_post_process_text") => \E b \in Backends : Called(b)
        /\ Called("_classify_content") => Called("_post_process_text")
        /\ Called("_generate_suggestions") => Called("_classify_content")
        /\ Called("_generate_suggestions") <=> last.result.success
        /\ last.result.success =>
              /\ last.result.content_type = _classify_content(last.result.text)
              /\ last.result.suggestions
                   = _generate_suggestions(last.result.text, last.result.content_type)

\* a run with preprocessing in which EasyOCR reads the single letter "a":
\* the raw text would be a short note, the post-processed text is empty and
\* the label is unknown
ComponentsOrderWitness ==
    /\ last.called
    /\ last.preprocess
    /\ last.env.regions = <<Region(Str("a"), 30)>>
    /\ last.calls = <<"validate_image", "preprocess_image", "mktemp", "imwrite",
                      "_extract_with_easyocr", "remove", "_post_process_text",
                      "_classify_content", "_generate_suggestions">>
    /\ last.result.success
    /\ last.result.text = <<>>
    /\ last.result.content_type = "unknown"
    /\ _classify_content(JoinText(last.env.regions)) = "handwritten_notes"

\* C24: every result extract_text returns, successful or not, has the keys
\* content_type, word_count, char_count and suggestions, and its content_type
\* is one of the six labels
ResultIsWellFormed ==
    (last.called /\ ~last.raised) =>
        /\ {"content_type", "word_count", "char_count", "suggestions"}
              \subseteq DOMAIN last.result
        /\ last.result.content_type \in ContentTypes

\* the statement-by-statement run ends with the dictionary that extract_text
\* as a whole returns, and a batch with the list batch_process returns
StatementsAgreeWithCall ==
    /\ obj.pc = "returned" =>
          heap[obj.result]
            = extract_text(EASYOCR_AVAILABLE, reader, obj.before,
                           obj.paths[obj.index + 1], obj.preprocess, obj.env).result
    /\ (obj.pc = "call" /\ obj.index > 0) =>
          heap[obj.result]
            = tag(extract_text(EASYOCR_AVAILABLE, reader, obj.before,
                               obj.paths[obj.index], obj.preprocess, obj.env).result,
                  obj.paths[obj.index])

\* C25: a result dictionary is never changed after it was built: no step of
\* extract_text or batch_process changes or adds a field of a dictionary
\* that exists
ResultNeverMutated ==
    [][\A r \in DOMAIN heap : heap'[r] = heap[r]]_vars

\* two equal neighbours, both c
HasRunOf(t, c) == \E i \in 1..(Len(t) - 1) : t[i] = c /\ t[i + 1] = c

\* C26: what _post_process_text returns has no two '|' in a row and no two
\* '0' in a row, also when a removed single letter stood between them
NoArtifactRuns ==
    pc \in {"cleaned", "recleaned"} =>
        /\ ~HasRunOf(cleaned, ord("|"))
        /\ ~HasRunOf(cleaned, ord("0"))

\* C27: OCRPipeline() returns whether or not easyocr was importable and
\* whether or not the reader initializes, and after a failed reader
\* initialization the flag that extract_text reads is false
ConstructorNeverRaises ==
    constructed.called =>
        /\ ~constructed.raised
        /\ (constructed.importable /\ ~constructed.reader_ok) => ~constructed.flag

\* C28: in a successful result of extract_text, word_count is the number of
\* whitespace-separated words of the returned text and char_count is the
\* length of the returned text
CountsDescribeReturnedText ==
    (last.called /\ ~last.raised /\ last.result.success) =>
        /\ last.result.word_count = split_count(last.result.text)
        /\ last.result.char_count = Len(last.result.text)

\* what the backend chosen at lines 222-225 returns for the file at path p
\* as it was before the invocation
BackendResultOn(p) ==
    IF EASYOCR_AVAILABLE
    THEN _extract_with_easyocr(reader, last.before, p, last.env).result
    ELSE _extract_with_basic_processing(last.before, p, last.env).result

\* C29: extract_text and batch_process leave every file that existed before
\* the call as it was, and any file they leave behind is a temp file of
\* theirs; an invocation with preprocess false writes and removes nothing,
\* makes no temp file, and returns what the backend makes of the original
\* path
InputFilesUntouched ==
    /\ \A p \in DOMAIN InitialFiles : p \in DOMAIN files /\ files[p] = InitialFiles[p]
    /\ DOMAIN files \ DOMAIN InitialFiles \subseteq TempNames
    /\ last.called =>
          /\ \A p \in DOMAIN last.before :
                p \in DOMAIN files /\ files[p] = last.before[p]
          /\ ~last.preprocess =>
                /\ files = last.before
                /\ ~Called("mktemp") /\ ~Called("imwrite") /\ ~Called("remove")
                /\ validate_image(last.before, last.image_path) =>
                      /\ last.result.success = BackendResultOn(last.image_path).success
                      /\ last.result.confidence
                           = BackendResultOn(last.image_path).confidence

\* a batch of two items with preprocessing whose last item wrote its temp
\* file, had it read with success and removed it
InputFilesWitness ==
    /\ pc = "batch_done"
    /\ batch_preprocess
    /\ Len(returned) = 2
    /\ returned[2].success
    /\ last.image_path = PagePng
    /\ Called("imwrite") /\ Called("remove")
    /\ files = InitialFiles

\* C30: a successful result that comes from the basic-processing backend is
\* returned by extract_text with content_type mathematical, whatever the
\* image and whatever the number of contours counted
BasicResultIsMathematical ==
    (last.called /\ ~last.raised /\ last.result.success
       /\ Called("_extract_with_basic_processing"))
      => /\ HasRuleSymbol(last.result.text)
         /\ last.result.content_type = "mathematical"

\* the basic backend counted 250 text regions in the preprocessed oversized
\* image and its result came back as mathematical
BasicMathematicalWitness ==
    /\ last.called
    /\ last.image_path = ScanJpg
    /\ last.preprocess
    /\ Called("_extract_with_basic_processing")
    /\ last.env.text_regions = 250
    /\ last.result.success
    /\ last.result.content_type = "mathematical"

====
